---------------------------- MODULE Spec2Model ----------------------------
(***************************************************************************)
(* A model of spikeanalysis: the SpikeAnalysis session object              *)
(* (spike_analysis.py) and the latency functions                           *)
(* (analysis_utils/latency_functions.py).                                  *)
(*                                                                         *)
(* Numbers.  Python floats that the code only adds, multiplies, divides    *)
(* and compares are modelled as exact rationals <<n, d>> (d > 0, lowest    *)
(* terms), in the code's own units (seconds, Hz, milliseconds).  The       *)
(* Poisson probabilities, which need exp(), are modelled in fixed point    *)
(* with FP units per 1.0.  NaN is <<0, 0>>.                                *)
(***************************************************************************)
EXTENDS Integers, Sequences, FiniteSets, TLC

(***************************************************************************)
(* Rational arithmetic                                                     *)
(***************************************************************************)
Abs(x) == IF x < 0 THEN -x ELSE x

RECURSIVE GCD(_, _)
GCD(a, b) == IF b = 0 THEN a ELSE GCD(b, a % b)

Rat(n, d) ==
    LET s == IF d < 0 THEN -1 ELSE 1
        g == GCD(Abs(n), Abs(d))
    IN  <<(s * n) \div g, (s * d) \div g>>

RInt(i) == <<i, 1>>
RAdd(x, y) == Rat(x[1] * y[2] + y[1] * x[2], x[2] * y[2])
RSub(x, y) == Rat(x[1] * y[2] - y[1] * x[2], x[2] * y[2])
RMul(x, y) == Rat(x[1] * y[1], x[2] * y[2])
RDiv(x, y) == Rat(x[1] * y[2], x[2] * y[1])
RLt(x, y) == x[1] * y[2] < y[1] * x[2]
RLe(x, y) == x[1] * y[2] <= y[1] * x[2]
RGt(x, y) == RLt(y, x)
RGe(x, y) == RLe(y, x)

\* int(x), np.int64(x), np.int32(x) of a float: truncation toward zero
Trunc(x) == IF x[1] >= 0 THEN x[1] \div x[2] ELSE -((-x[1]) \div x[2])

\* np.nan: the one value <<n, d>> with d = 0
NaN == <<0, 0>>
IsNaN(v) == v[2] = 0


(***************************************************************************)
(* Sequence helpers                                                        *)
(***************************************************************************)
RECURSIVE SumSeq(_)
SumSeq(s) == IF s = <<>> THEN 0 ELSE s[1] + SumSeq(Tail(s))

Min(S) == CHOOSE x \in S : \A y \in S : x <= y
Max(S) == CHOOSE x \in S : \A y \in S : x >= y

(***************************************************************************)
(* binary64 arithmetic, for np.int64((time_bin_ms / 1000) * sampling_rate) *)
(* where the rounding of the quotient and of the product decides the       *)
(* truncated result.  A positive float is [m, e]: m the 53 bits of its     *)
(* significand, first bit 1, and e the exponent of that first bit.  Bit    *)
(* strings are most significant bit first; the long division and the       *)
(* multiplication work on digits of DigitBits bits.                        *)
(***************************************************************************)
Mantissa == 53
DigitBits == 13

RECURSIVE Pow2(_)
Pow2(k) == IF k = 0 THEN 1 ELSE 2 * Pow2(k - 1)

RECURSIVE ToBits(_)
ToBits(n) == IF n = 0 THEN <<>> ELSE Append(ToBits(n \div 2), n % 2)

RECURSIVE FromBits(_)
FromBits(bits) ==
    IF bits = <<>> THEN 0
    ELSE 2 * FromBits(SubSeq(bits, 1, Len(bits) - 1)) + bits[Len(bits)]

Zeros(n) == [i \in 1 .. n |-> 0]

\* the bits from the first 1 on
StripZeros(bits) ==
    IF \A i \in 1 .. Len(bits) : bits[i] = 0 THEN <<>>
    ELSE SubSeq(bits, Min({i \in 1 .. Len(bits) : bits[i] = 1}), Len(bits))

\* bits, a multiple of DigitBits long, as digits, and back
ToDigits(bits) ==
    [j \in 1 .. Len(bits) \div DigitBits |->
        FromBits(SubSeq(bits, (j - 1) * DigitBits + 1, j * DigitBits))]

FromDigits(digits) ==
    [i \in 1 .. Len(digits) * DigitBits |->
        (digits[(i - 1) \div DigitBits + 1]
            \div Pow2(DigitBits - 1 - ((i - 1) % DigitBits))) % 2]

\* zeros in front, up to a multiple of DigitBits
Padded(bits) == Zeros((DigitBits - (Len(bits) % DigitBits)) % DigitBits) \o bits

\* one step of the long division by c: t is the remainder so far, shifted,
\* plus the next digit
DivStep(q, t, c) == [q |-> Append(q, t \div c), r |-> t % c]

DivNext(p, digit, c) == DivStep(p.q, p.r * Pow2(DigitBits) + digit, c)

\* quotient digits and remainder of the first n digits divided by c
RECURSIVE DivDigits(_, _, _)
DivDigits(digits, c, n) ==
    IF n = 0 THEN [q |-> <<>>, r |-> 0]
    ELSE DivNext(DivDigits(digits, c, n - 1), digits[n], c)

DivJoin(p) == [q |-> FromDigits(p.q), r |-> p.r]

DivOfDigits(digits, c) == DivJoin(DivDigits(digits, c, Len(digits)))

\* quotient bits and remainder of the number with these bits divided by c
DivBits(bits, c) == DivOfDigits(ToDigits(Padded(bits)), c)

MulStep(q, t) == [q |-> <<t % Pow2(DigitBits)>> \o q, carry |-> t \div Pow2(DigitBits)]

MulNext(p, digit, c) == MulStep(p.q, digit * c + p.carry)

\* the product of the last n digits with c: its low n digits and the carry
RECURSIVE MulLow(_, _, _)
MulLow(digits, c, n) ==
    IF n = 0 THEN [q |-> <<>>, carry |-> 0]
    ELSE MulNext(MulLow(digits, c, n - 1), digits[Len(digits) - n + 1], c)

MulJoin(p) == ToBits(p.carry) \o FromDigits(p.q)

MulOfDigits(digits, c) == MulJoin(MulLow(digits, c, Len(digits)))

\* the bits of the number with these bits times c
MulBits(bits, c) == MulOfDigits(ToDigits(Padded(bits)), c)

\* the bits of the number plus one
IncBits(bits) ==
    IF \A i \in 1 .. Len(bits) : bits[i] = 1 THEN <<1>> \o Zeros(Len(bits))
    ELSE [i \in 1 .. Len(bits) |->
            IF \E j \in i + 1 .. Len(bits) : bits[j] = 0 THEN bits[i]
            ELSE 1 - bits[i]]

\* the significand after the increment, renormalised
Carried(m, e) ==
    IF Len(m) > Mantissa THEN [m |-> SubSeq(m, 1, Mantissa), e |-> e + 1]
    ELSE [m |-> m, e |-> e]

\* round to nearest, ties to even: bits has no leading zero, e is the
\* exponent of its first bit, sticky tells that a non-zero rest was dropped
RoundBits(bits, e, sticky) ==
    IF Len(bits) <= Mantissa
    THEN [m |-> bits \o Zeros(Mantissa - Len(bits)), e |-> e]
    ELSE IF /\ bits[Mantissa + 1] = 1
            /\ \/ sticky
               \/ bits[Mantissa] = 1
               \/ \E i \in Mantissa + 2 .. Len(bits) : bits[i] = 1
    THEN Carried(IncBits(SubSeq(bits, 1, Mantissa)), e)
    ELSE [m |-> SubSeq(bits, 1, Mantissa), e |-> e]

\* the float nearest to the number with these bits, lsb the exponent of
\* the last bit
Fl(bits, lsb, sticky) ==
    RoundBits(StripZeros(bits), lsb + Len(StripZeros(bits)) - 1, sticky)

FlDiv(d, lsb) == Fl(d.q, lsb, d.r # 0)

\* the float of the literal or quotient n / d, n > 0
FloatOfRat(n, d) == FlDiv(DivBits(ToBits(n) \o Zeros(70), d), -70)

\* x / c and x * c for a float x and a whole number c
QuotientOf(x, c) ==
    FlDiv(DivBits(x.m \o Zeros(20), c), x.e - (Mantissa - 1) - 20)

ProductOf(x, c) == Fl(MulBits(x.m, c), x.e - (Mantissa - 1), FALSE)

\* the operand is evaluated before the operation, as in the source
FloatDiv(x, c) == CHOOSE q \in {QuotientOf(y, c) : y \in {x}} : TRUE

FloatMul(x, c) == CHOOSE p \in {ProductOf(y, c) : y \in {x}} : TRUE

\* np.int64(x)
TruncOf(x) == IF x.e < 0 THEN 0 ELSE FromBits(SubSeq(x.m, 1, x.e + 1))

FloatTrunc(x) == CHOOSE n \in {TruncOf(y) : y \in {x}} : TRUE

\* digits a >= digits b, both of one length
GeDigits(a, b) ==
    \A i \in 1 .. Len(a) : a[i] < b[i] => \E j \in 1 .. i - 1 : a[j] > b[j]

AddNext(p, x, y) == MulStep(p.q, x + y + p.carry)

\* the sum of the last n digits of a and of b and a carry: its low n digits
\* and the carry out
RECURSIVE AddLow(_, _, _, _)
AddLow(a, b, n, carry) ==
    IF n = 0 THEN [q |-> <<>>, carry |-> carry]
    ELSE AddNext(AddLow(a, b, n - 1, carry),
                 a[Len(a) - n + 1], b[Len(b) - n + 1])

\* a + b + carry, without the carry out
AddDigits(a, b, carry) == AddLow(a, b, Len(a), carry).q

Complement(b) == [i \in 1 .. Len(b) |-> Pow2(DigitBits) - 1 - b[i]]

\* a - b for a >= b
SubDigits(a, b) == AddDigits(a, Complement(b), 1)

\* the significand of x as a whole number of units 2^lsb, w bits wide
Aligned(x, lsb, w) ==
    Zeros(w - Mantissa - (x.e - (Mantissa - 1) - lsb))
        \o x.m \o Zeros(x.e - (Mantissa - 1) - lsb)

MagOf(a, b, lsb, sub) ==
    Fl(FromDigits(IF sub THEN SubDigits(a, b) ELSE AddDigits(a, b, 0)),
       lsb, FALSE)

MagAligned(x, y, lsb, w, sub) ==
    MagOf(ToDigits(Aligned(x, lsb, w)), ToDigits(Aligned(y, lsb, w)), lsb, sub)

\* x - y (sub, for x > y) or x + y for floats x, y: the exact result, rounded
MagSum(x, y, sub) ==
    MagAligned(x, y, Min({x.e, y.e}) - (Mantissa - 1),
               DigitBits * ((Max({x.e, y.e}) - Min({x.e, y.e})
                                + Mantissa + DigitBits) \div DigitBits),
               sub)

\* one step of the long division by the digits d: the remainder r, already
\* doubled, gives the next quotient bit
DivPick(q, r, d) ==
    IF GeDigits(r, d) THEN [q |-> Append(q, 1), r |-> SubDigits(r, d)]
    ELSE [q |-> Append(q, 0), r |-> r]

\* the remainder is doubled before the step is taken
DivBit(p, d) ==
    CHOOSE next \in {DivPick(y[1], y[2], d) :
                        y \in {<<p.q, AddDigits(p.r, p.r, 0)>>}} : TRUE

RECURSIVE DivBitsBy(_, _, _)
DivBitsBy(p, d, n) == IF n = 0 THEN p ELSE DivBit(DivBitsBy(p, d, n - 1), d)

\* fourteen more quotient bits
DivRun(p, d) == CHOOSE next \in {DivBitsBy(y, d, 14) : y \in {p}} : TRUE

\* the quotient of the digits r by the digits d, r < 2 * d: one bit before
\* the binary point and 56 after it, and the remainder
QuotientDigits(r, d) ==
    DivRun(DivRun(DivRun(DivRun(DivPick(<<>>, r, d), d), d), d), d)

FlQuotient(p, lsb) == Fl(p.q, lsb, \E i \in 1 .. Len(p.r) : p.r[i] # 0)

QuotientOfFloats(x, t) ==
    FlQuotient(QuotientDigits(ToDigits(Padded(x.m)), ToDigits(Padded(t.m))),
               x.e - t.e - 56)

\* x / t for floats x, t
FloatQuot(x, t) ==
    CHOOSE q \in {QuotientOfFloats(y[1], y[2]) : y \in {<<x, t>>}} : TRUE

\* the float of a rational other than 0, without its sign
MagOfRat(r) == FloatOfRat(Abs(r[1]), r[2])

DiffOf(b, a) ==
    IF a[1] = 0 THEN MagOfRat(b)
    ELSE IF b[1] = 0 THEN MagOfRat(a)
    ELSE IF a[1] > 0 THEN MagSum(MagOfRat(b), MagOfRat(a), TRUE)
    ELSE IF b[1] < 0 THEN MagSum(MagOfRat(a), MagOfRat(b), TRUE)
    ELSE MagSum(MagOfRat(b), MagOfRat(a), FALSE)

\* b - a for the floats of the rationals a < b
FloatDiff(b, a) == CHOOSE x \in {DiffOf(y[1], y[2]) : y \in {<<b, a>>}} : TRUE

(***************************************************************************)
(* latency_functions.py: helper functions for doing Poisson.               *)
(* Probabilities are fixed-point integers, FP units per 1.0.               *)
(***************************************************************************)
FPRoot == 10 * 1000
FP == FPRoot * FPRoot

\* number of terms of the series that models math.exp
ExpTerms == 30

\* floor(x * p / q) for x >= 0, without forming x * p
MulRat(x, p, q) == (x \div q) * p + ((x % q) * p) \div q

\* floor(a * b / FP) for fixed-point a, b >= 0, without forming a * b
MulFix(a, b) ==
    LET a1 == a \div FPRoot
        a0 == a % FPRoot
        b1 == b \div FPRoot
        b0 == b % FPRoot
    IN  a1 * b1 + (a1 * b0 + a0 * b1 + (a0 * b0) \div FPRoot) \div FPRoot

\* math.exp(-mu), mu >= 0 a rational: the series sum (-mu)^m / m!
RECURSIVE ExpNegSum(_, _, _, _)
ExpNegSum(mu, m, term, acc) ==
    IF term = 0 \/ m > ExpTerms
    THEN acc
    ELSE ExpNegSum(mu, m + 1, MulRat(term, mu[1], mu[2] * (m + 1)),
                   IF m % 2 = 0 THEN acc + term ELSE acc - term)

ExpNeg(mu) == ExpNegSum(mu, 0, FP, 0)

\* Factorials leave the checker's integers: a whole number n >= 1 is kept
\* as its digits in base BigBase, most significant first, no leading 0.
BigBase == 10000

ToBig(n) == IF n < BigBase THEN <<n>> ELSE <<n \div BigBase, n % BigBase>>

BigStep(q, t) == [q |-> <<t % BigBase>> \o q, carry |-> t \div BigBase]

BigNext(p, digit, c) == BigStep(p.q, digit * c + p.carry)

\* the product of the last n digits with c: its low n digits and the carry
RECURSIVE BigLow(_, _, _)
BigLow(digits, c, n) ==
    IF n = 0 THEN [q |-> <<>>, carry |-> 0]
    ELSE BigNext(BigLow(digits, c, n - 1), digits[Len(digits) - n + 1], c)

BigJoin(p) == IF p.carry = 0 THEN p.q ELSE <<p.carry>> \o p.q

\* digits times c, for 1 <= c < BigBase
BigTimes(digits, c) == BigJoin(BigLow(digits, c, Len(digits)))

\* a < b
BigLess(a, b) ==
    \/ Len(a) < Len(b)
    \/ /\ Len(a) = Len(b)
       /\ \E i \in 1 .. Len(a) :
            a[i] < b[i] /\ \A j \in 1 .. i - 1 : a[j] = b[j]

\* floor(x / d) for a whole number 0 <= x < BigBase^2
FloorDivBig(x, d) ==
    IF BigLess(ToBig(x), d) THEN 0
    ELSE x \div (IF Len(d) = 1 THEN d[1] ELSE d[1] * BigBase + d[2])

\* look up table for factorials less than 20
LOOKUP_TABLE ==
    <<<<1>>, <<1>>, <<2>>,
      <<6>>, <<24>>, <<120>>,
      <<720>>, <<5040>>, <<4, 320>>,
      <<36, 2880>>, <<362, 8800>>, <<3991, 6800>>,
      <<4, 7900, 1600>>, <<62, 2702, 800>>, <<871, 7829, 1200>>,
      <<1, 3076, 7436, 8000>>, <<20, 9227, 8988, 8000>>, <<355, 6874, 2809, 6000>>,
      <<6402, 3737, 572, 8000>>, <<12, 1645, 1004, 883, 2000>>, <<243, 2902, 81, 7664, 0>>>>

\* math.gamma(n) for a whole number n >= 1
RECURSIVE gamma(_)
gamma(n) ==
    IF n = 1 THEN <<1>>
    ELSE CHOOSE p \in {BigTimes(g, n - 1) : g \in {gamma(n - 1)}} : TRUE

\* if k <= 20: return LOOKUP_TABLE[k]; else: return math.gamma(k + 1)
factorial_GammaOfK(k) == IF k <= 20 THEN LOOKUP_TABLE[k + 1] ELSE gamma(k)
factorial(k) == IF k <= 20 THEN LOOKUP_TABLE[k + 1] ELSE gamma(k + 1)

\* x * mu^k, one factor at a time
RECURSIVE TimesPow(_, _, _)
TimesPow(x, mu, k) ==
    IF k = 0 THEN x
    ELSE CHOOSE p \in {TimesPow(y, mu, k - 1) :
                            y \in {MulRat(x, mu[1], mu[2])}} : TRUE

\* (mu**k) / factorial(k) * math.exp(-mu); the division is taken first so
\* that no intermediate value leaves the integer range
poisson_pdf(k, mu) ==
    MulFix(TimesPow(FloorDivBig(FP, factorial(k)), mu, k), ExpNeg(mu))

\* value = 0.0; for k in range(k + 1): value += poisson_pdf(k, mu)
RECURSIVE poisson_cdf(_, _)
poisson_cdf(k, mu) ==
    IF k < 0 THEN 0
    ELSE CHOOSE value \in {v + poisson_pdf(k, mu) :
                                v \in {poisson_cdf(k - 1, mu)}} : TRUE

(***************************************************************************)
(* latency_functions.py: the two latency models.  firing_data is a         *)
(* sequence of trial rows, each a sequence of bin counts (at least one     *)
(* trial, at least two bins); time_bin_size is in seconds, bsl_fr in Hz.   *)
(* Bin indices n_bin are the code's, from 0.                               *)
(***************************************************************************)
\* final_prob <= 10e-6
Threshold == FP \div 100000

\* 1 - poisson_cdf(int(np.sum(firing_data[trial][: n_bin + 1]) - 1),
\*                 bsl_fr * ((n_bin + 1) * time_bin_size))
FinalProb(bsl_fr, row, n_bin, time_bin_size) ==
    FP - poisson_cdf(SumSeq(SubSeq(row, 1, n_bin + 1)) - 1,
                     RMul(bsl_fr, RMul(RInt(n_bin + 1), time_bin_size)))

\* the value of n_bin when the inner for loop over range(n_bins - 1) is left:
\* the first index that breaks, or the last index of the range
NBinAfterLoop(bsl_fr, row, time_bin_size) ==
    LET hits == {n \in 0 .. Len(row) - 2 :
                    FinalProb(bsl_fr, row, n, time_bin_size) <= Threshold}
    IN  IF hits = {} THEN Len(row) - 2 ELSE Min(hits)

\* The if/else that stores the latency follows the loop over trials (it is
\* not inside it): it runs once, with trial and n_bin as the last trial's
\* iteration left them.  All other entries keep the 0.0 of np.zeros.
latency_core_stats(bsl_fr, firing_data, time_bin_size) ==
    LET T == Len(firing_data)
        n_bin == NBinAfterLoop(bsl_fr, firing_data[T], time_bin_size)
    IN  [trial \in 1 .. T |->
            IF trial < T THEN RInt(0)
            ELSE IF n_bin = Len(firing_data[T]) - 2 THEN NaN
            ELSE RMul(RInt(n_bin + 1), time_bin_size)]

\* latency_median with the first spike's bin index taken as the latency
latency_median_BinIndex(firing_counts, time_bin_size) ==
    [trial \in 1 .. Len(firing_counts) |->
        LET min_spike_time ==
                {i \in 0 .. Len(firing_counts[trial]) - 1 :
                    firing_counts[trial][i + 1] # 0}
        IN  IF min_spike_time = {} THEN NaN
            ELSE RMul(RInt(Min(min_spike_time)), time_bin_size)]

latency_median(firing_counts, time_bin_size) ==
    [trial \in 1 .. Len(firing_counts) |->
        LET min_spike_time ==
                {i \in 0 .. Len(firing_counts[trial]) - 1 :
                    firing_counts[trial][i + 1] # 0}
        IN  IF min_spike_time = {} THEN NaN
            ELSE RMul(RInt(Min(min_spike_time) + 1), time_bin_size)]


(***************************************************************************)
(* Python values                                                           *)
(***************************************************************************)
\* An attribute is Absent while it was never assigned (reading it raises
\* AttributeError) and Some(v) once it holds v.
Absent == <<>>
Some(v) == <<v>>
Val(o) == o[1]
IsSet(o) == Len(o) = 1
None == "None"

\* A dict is the sequence of its <<key, value>> items in insertion order.
DKeys(d) == [i \in 1 .. Len(d) |-> d[i][1]]
DHas(d, k) == \E i \in 1 .. Len(d) : d[i][1] = k
DGet(d, k) == d[CHOOSE i \in 1 .. Len(d) : d[i][1] = k][2]
DPut(d, k, v) ==
    IF DHas(d, k)
    THEN [i \in 1 .. Len(d) |-> IF d[i][1] = k THEN <<k, v>> ELSE d[i]]
    ELSE Append(d, <<k, v>>)

\* {**event_0, **event_1}
RECURSIVE DMerge(_, _)
DMerge(d0, d1) ==
    IF d1 = <<>> THEN d0
    ELSE DMerge(DPut(d0, d1[1][1], d1[1][2]), Tail(d1))

\* numpy boolean indexing of one axis: the entries of seq where mask is TRUE
RECURSIVE Pick(_, _)
Pick(seq, mask) ==
    IF seq = <<>> THEN <<>>
    ELSE (IF Head(mask) THEN <<Head(seq)>> ELSE <<>>)
            \o Pick(Tail(seq), Tail(mask))

SeqRange(s) == {s[i] : i \in 1 .. Len(s)}

\* np.sort(np.unique(x)) of a sequence of integers
RECURSIVE SortedSeq(_)
SortedSeq(S) ==
    IF S = {} THEN <<>> ELSE <<Min(S)>> \o SortedSeq(S \ {Min(S)})

Unique(s) == SortedSeq(SeqRange(s))

(***************************************************************************)
(* The state: the attributes of one SpikeAnalysis object, what the last    *)
(* call printed or raised, and the arguments and result of the latency     *)
(* functions when they are called on their own.                            *)
(***************************************************************************)
VARIABLES
    file_path,      \* self._file_path
    spike,          \* the attributes set_spike_data assigns, or Absent
    stim,           \* the attributes set_stimulus_data assigns but self.events
    events,         \* self.events: channel -> [events, trial_groups, stim]
    psths,          \* self.psths: stim name -> [psth, bins], or Absent
    NUM_STIM,       \* self.NUM_STIM, or Absent
    multispike,     \* multispike_bin of each stimulus in the last get_raw_psth
    fr,             \* fr_windows, fr_bins, raw_firing_rate, mean_firing_rate
    zs,             \* z_windows, z_bins, raw_zscores, z_scores
    lat,            \* latency, _latency_time_bin, bsl_shuffled, and the writes
    call,           \* the last call: its name, arguments and how it ended
    responsive_neurons, \* self.responsive_neurons, or Absent
    fn_args,        \* arguments of a direct call of a latency function
    fn_out          \* the function called and the array it returned

sessionVars ==
    <<file_path, spike, stim, events, psths, NUM_STIM, fr, zs, lat,
      responsive_neurons>>
fnVars == <<fn_args, fn_out>>
vars == <<file_path, spike, stim, events, psths, NUM_STIM, multispike, fr,
          zs, lat, responsive_neurons, call, fn_args, fn_out>>

Ok == "ok"
Error == "error"

(***************************************************************************)
(* __init__                                                                *)
(***************************************************************************)
InitSession ==
    /\ file_path = None
    /\ spike = Absent
    /\ stim = [HAVE_DIGITAL |-> Absent, HAVE_DIG_ANALOG |-> Absent,
               HAVE_ANALOG |-> Absent, digital_events |-> Absent,
               dig_analog_events |-> Absent]
    /\ events = <<>>
    /\ psths = Absent
    /\ NUM_STIM = Absent
    /\ multispike = <<>>
    /\ fr = [fr_windows |-> Absent, fr_bins |-> Absent,
             raw_firing_rate |-> Absent, mean_firing_rate |-> Absent]
    /\ zs = [z_windows |-> Absent, z_bins |-> Absent, raw_zscores |-> Absent,
             z_scores |-> Absent]
    /\ lat = [latency |-> Absent, latency_time_bin |-> Absent,
              bsl_shuffled |-> Absent, writes |-> Absent]
    /\ responsive_neurons = Absent
    /\ call = [op |-> "__init__", result |-> Ok, args |-> <<>>]

NoFnCall == [fn |-> "none", latency |-> <<>>]

(***************************************************************************)
(* set_spike_data(sp).  sp is a SpikeData record [file_path,               *)
(* raw_spike_times, spike_clusters, cids, sampling_rate]: no spike_times   *)
(* and no _qc_threshold attribute, and a denoise_data() that changes       *)
(* nothing (quality control is not modelled).                              *)
(***************************************************************************)
\* if self._file_path is None: (take the data's path) else: assert
\* self._file_path == data._file_path
SameRoot_Unchecked(session_path, data_path) == TRUE
SameRoot(session_path, data_path) ==
    session_path = None \/ session_path = data_path

\* the argument as the call record keeps it: the root path of the data
PathOf(data) == [file_path |-> data.file_path]

set_spike_data(sp) ==
    IF ~SameRoot(file_path, sp.file_path)
    THEN \* AssertionError
         /\ call' = [op |-> "set_spike_data", result |-> Error,
                     args |-> PathOf(sp)]
         /\ UNCHANGED <<file_path, spike>>
    ELSE /\ file_path' = sp.file_path
         /\ spike' = Some(
              [spike_times |->
                   [i \in 1 .. Len(sp.raw_spike_times) |->
                       Rat(sp.raw_spike_times[i], sp.sampling_rate)],
               cids |-> sp.cids,
               qc_threshold |-> [i \in 1 .. Len(sp.cids) |-> TRUE],
               raw_spike_times |-> sp.raw_spike_times,
               cluster_ids |-> sp.cids,
               spike_clusters |-> sp.spike_clusters,
               sampling_rate |-> sp.sampling_rate])
         /\ call' = [op |-> "set_spike_data", result |-> Ok,
                     args |-> PathOf(sp)]

SetSpikeData(sp) ==
    /\ set_spike_data(sp)
    /\ UNCHANGED <<stim, events, psths, NUM_STIM, multispike, fr, zs, lat>>
    /\ UNCHANGED <<responsive_neurons, fn_args, fn_out>>

(***************************************************************************)
(* set_stimulus_data(event_times).  event_times is a StimulusData record   *)
(* [file_path, digital_events, dig_analog_events, analog_data], each of    *)
(* the last three Absent when the object has no such attribute.            *)
(***************************************************************************)
_merge_events(event_0, event_1) == DMerge(event_0, event_1)

set_stimulus_data(event_times) ==
    IF ~SameRoot(file_path, event_times.file_path)
    THEN \* AssertionError
         /\ call' = [op |-> "set_stimulus_data", result |-> Error,
                     args |-> PathOf(event_times)]
         /\ UNCHANGED <<file_path, stim, events>>
    ELSE LET have_digital == IsSet(event_times.digital_events)
             have_dig_analog == IsSet(event_times.dig_analog_events)
         IN  /\ file_path' = event_times.file_path
             /\ stim' =
                  [HAVE_DIGITAL |-> Some(have_digital),
                   HAVE_DIG_ANALOG |-> Some(have_dig_analog),
                   HAVE_ANALOG |-> Some(IsSet(event_times.analog_data)),
                   digital_events |->
                       IF have_digital THEN event_times.digital_events
                       ELSE stim.digital_events,
                   dig_analog_events |->
                       IF have_dig_analog THEN event_times.dig_analog_events
                       ELSE stim.dig_analog_events]
             /\ IF have_digital /\ have_dig_analog
                THEN /\ events' =
                          _merge_events(Val(event_times.digital_events),
                                        Val(event_times.dig_analog_events))
                     /\ call' = [op |-> "set_stimulus_data", result |-> Ok,
                                 args |-> PathOf(event_times)]
                ELSE IF have_digital
                THEN /\ events' = Val(event_times.digital_events)
                     /\ call' = [op |-> "set_stimulus_data", result |-> Ok,
                                 args |-> PathOf(event_times)]
                ELSE IF have_dig_analog
                THEN /\ events' = Val(event_times.dig_analog_events)
                     /\ call' = [op |-> "set_stimulus_data", result |-> Ok,
                                 args |-> PathOf(event_times)]
                ELSE \* raise Exception("Code requires some stimulus data")
                     /\ events' = events
                     /\ call' = [op |-> "set_stimulus_data", result |-> Error,
                                 args |-> PathOf(event_times)]

SetStimulusData(event_times) ==
    /\ set_stimulus_data(event_times)
    /\ UNCHANGED <<spike, psths, NUM_STIM, multispike, fr, zs, lat>>
    /\ UNCHANGED <<responsive_neurons, fn_args, fn_out>>


(***************************************************************************)
(* Helpers of the repository that get_raw_psth and the derivation stages   *)
(* call: utils.verify_window_format and                                    *)
(* analysis_utils.histogram_functions.spike_times_to_bins.                 *)
(*                                                                         *)
(* A window argument is [kind |-> "single", v |-> <<window>>], one         *)
(* sequence (start, end), or [kind |-> "nested", v |-> <<window, ...>>],   *)
(* a list with one window per stimulus; times are rationals in seconds.    *)
(***************************************************************************)
verify_window_format(window, num_stim) ==
    IF window.kind = "single"
    THEN [ok |-> TRUE, v |-> [i \in 1 .. num_stim |-> window.v[1]]]
    ELSE IF Len(window.v) = num_stim
    THEN [ok |-> TRUE, v |-> window.v]
    ELSE [ok |-> FALSE, v |-> <<>>]

\* Counts of the time stamps in the half-open bins
\* [event + start + k * bin_size, event + start + (k + 1) * bin_size),
\* k < floor((end - start) / bin_size), per event, and the bin centres
\* start + k * bin_size + bin_size / 2 (all in samples).
spike_times_to_bins(time_stamps, evts, bin_size, start, end) ==
    LET n_bins == (end - start) \div bin_size
    IN  [spikes_array |->
            [e \in 1 .. Len(evts) |->
                [k \in 1 .. n_bins |->
                    Cardinality({i \in 1 .. Len(time_stamps) :
                        /\ time_stamps[i] >= evts[e] + start + (k - 1) * bin_size
                        /\ time_stamps[i] < evts[e] + start + k * bin_size})]],
         bins_sub |->
            [k \in 1 .. n_bins |->
                Rat(2 * (start + (k - 1) * bin_size) + bin_size, 2)]]

(***************************************************************************)
(* get_raw_psth(window, time_bin_ms)                                       *)
(***************************************************************************)
\* np.int64((time_bin_ms / 1000) * self._sampling_rate)
FloatSamples(time_bin_ms, sampling_rate) ==
    IF time_bin_ms[1] <= 0
    THEN Trunc(RMul(RDiv(time_bin_ms, RInt(1000)), RInt(sampling_rate)))
    ELSE FloatTrunc(FloatMul(FloatDiv(FloatOfRat(time_bin_ms[1], time_bin_ms[2]),
                                      1000),
                             sampling_rate))

\* The sampling rates of the recordings below, and the <<time_bin_ms,
\* sampling rate>> pairs their sessions call get_raw_psth with: the sample
\* counts of these are computed once.
SamplingRates == {1000, 18000}
BinSizeCalls ==
    ({Rat(1, 2), RInt(10), RInt(250), Rat(501, 2)} \X {1000})
    \cup {<<Rat(500 * k, sr), sr>> : k \in {1, 2, 4}, sr \in SamplingRates}
SampleCounts == {<<a, FloatSamples(a[1], a[2])>> : a \in BinSizeCalls}

TimeBinSamples(time_bin_ms, sampling_rate) ==
    IF <<time_bin_ms, sampling_rate>> \in BinSizeCalls
    THEN (CHOOSE p \in SampleCounts : p[1] = <<time_bin_ms, sampling_rate>>)[2]
    ELSE FloatSamples(time_bin_ms, sampling_rate)

\* np.int64(current_window[i] * self._sampling_rate)
WindowSamples(t, sampling_rate) == Trunc(RMul(t, RInt(sampling_rate)))

\* the last axis of np.zeros((clusters, events, int((window_end -
\* window_start) / time_bin_size)))
PsthBinCount(window_start, window_end, time_bin_size) ==
    Trunc(Rat(window_end - window_start, time_bin_size))

\* spike_times > min_time and spike_times < max_time
InGlobalRange(t, min_time, max_time) == t > min_time /\ t < max_time

\* the cluster has a bin with more than one spike
HasMultispike(spikes_array) ==
    \E e \in 1 .. Len(spikes_array) :
        \E k \in 1 .. Len(spikes_array[e]) : spikes_array[e][k] > 1

\* multispike_bin after the loop over the clusters
MultispikeBin(psth) ==
    Cardinality({idy \in 1 .. Len(psth) : HasMultispike(psth[idy])})

\* One iteration of the loop over self.events: the psth and bins of one
\* stimulus, and its multispike_bin.
PsthOfStimulus(sa, stimulus, current_window, time_bin_size) ==
    LET evts == stimulus.events
        window_start == WindowSamples(current_window[1], sa.sampling_rate)
        window_end == WindowSamples(current_window[2], sa.sampling_rate)
        n_bins == PsthBinCount(window_start, window_end, time_bin_size)
        min_time == Min(SeqRange(evts)) + window_start
        max_time == Max(SeqRange(evts)) + window_end
        in_range == [i \in 1 .. Len(sa.raw_spike_times) |->
                        InGlobalRange(sa.raw_spike_times[i], min_time, max_time)]
        current_spike_clusters == Pick(sa.spike_clusters, in_range)
        current_spikes == Pick(sa.raw_spike_times, in_range)
        binned(cluster) ==
            spike_times_to_bins(
                Pick(current_spikes,
                     [i \in 1 .. Len(current_spikes) |->
                         current_spike_clusters[i] = cluster]),
                evts, time_bin_size, window_start, window_end)
        \* psth[idy] = spikes_array, into the zeros of the shape above
        psth == [idy \in 1 .. Len(sa.cluster_ids) |->
                    [e \in 1 .. Len(evts) |->
                        [k \in 1 .. n_bins |->
                            binned(sa.cluster_ids[idy]).spikes_array[e][k]]]]
    IN  [psth |-> psth,
         bins |-> [k \in 1 .. n_bins |->
                      RDiv(binned(sa.cluster_ids[Len(sa.cluster_ids)]).bins_sub[k],
                           RInt(sa.sampling_rate))],
         multispike_bin |-> MultispikeBin(psth)]

\* the dict psths after the loop over the first n stimuli
RECURSIVE PsthLoop(_, _, _, _)
PsthLoop(sa, windows, time_bin_size, n) ==
    IF n = 0 THEN <<>>
    ELSE LET stimulus == events[n][2]
             done == PsthOfStimulus(sa, stimulus, windows[n], time_bin_size)
         IN  DPut(PsthLoop(sa, windows, time_bin_size, n - 1), stimulus.stim,
                  [psth |-> done.psth, bins |-> done.bins])

get_raw_psth(window, time_bin_ms) ==
    IF ~IsSet(spike)
    THEN \* AttributeError: self.raw_spike_times
         /\ call' = [op |-> "get_raw_psth", result |-> Error,
                      args |-> [window |-> window, time_bin_ms |-> time_bin_ms]]
         /\ UNCHANGED <<psths, NUM_STIM, multispike>>
    ELSE LET sa == Val(spike)
             TOTAL_STIM == Len(events)
             windows == verify_window_format(window, TOTAL_STIM)
             time_bin_size == TimeBinSamples(time_bin_ms, sa.sampling_rate)
         IN  IF \/ RLt(time_bin_ms, Rat(1000, sa.sampling_rate))
                \/ events = <<>>
                \/ ~windows.ok
                \/ time_bin_size = 0
             THEN \* AssertionError, or AttributeError: self.events is only
                  \* set by set_stimulus_data, and never to an empty dict, or
                  \* OverflowError: int() of the division by a time_bin_size
                  \* of 0 samples in the shape of np.zeros
                  /\ call' = [op |-> "get_raw_psth", result |-> Error,
                      args |-> [window |-> window, time_bin_ms |-> time_bin_ms]]
                  /\ UNCHANGED <<psths, NUM_STIM, multispike>>
             ELSE /\ psths' = Some(PsthLoop(sa, windows.v, time_bin_size,
                                            TOTAL_STIM))
                  /\ NUM_STIM' = Some(TOTAL_STIM)
                  /\ multispike' =
                       [idx \in 1 .. TOTAL_STIM |->
                           PsthOfStimulus(sa, events[idx][2], windows.v[idx],
                                          time_bin_size).multispike_bin]
                  /\ call' = [op |-> "get_raw_psth", result |-> Ok,
                      args |-> [window |-> window, time_bin_ms |-> time_bin_ms]]

GetRawPsth(window, time_bin_ms) ==
    /\ get_raw_psth(window, time_bin_ms)
    /\ UNCHANGED <<file_path, spike, stim, events, fr, zs, lat>>
    /\ UNCHANGED <<responsive_neurons, fn_args, fn_out>>


(***************************************************************************)
(* What the derivation stages share: _get_key_for_stim, the per-stimulus   *)
(* bin size, analysis_utils.histogram_functions.convert_to_new_bins and    *)
(* convert_bins, and the selection of the bins of a window.                *)
(*                                                                         *)
(* A time_bin_ms or sm_time_ms argument is [kind |-> "scalar", v |-> <<x>>]*)
(* or [kind |-> "list", v |-> <<x, ...>>], x a rational in milliseconds.   *)
(***************************************************************************)
RECURSIVE StimDictLoop(_)
StimDictLoop(n) ==
    IF n = 0 THEN <<>>
    ELSE DPut(StimDictLoop(n - 1), events[n][2].stim, events[n][1])

\* stim_dict: stimulus name -> channel
_get_key_for_stim == StimDictLoop(Len(events))

\* time_bin_size: [time_bin_ms / 1000] * NUM_STIM, or
\* np.array(time_bin_ms) / 1000 after the assert on its length
TimeBinSizes_Recycled(time_bin_ms, num_stim) ==
    [ok |-> TRUE,
     v |-> [i \in 1 .. num_stim |->
              RDiv(time_bin_ms.v[((i - 1) % Len(time_bin_ms.v)) + 1],
                   RInt(1000))]]
TimeBinSizes(time_bin_ms, num_stim) ==
    IF time_bin_ms.kind = "scalar"
    THEN [ok |-> TRUE,
          v |-> [i \in 1 .. num_stim |-> RDiv(time_bin_ms.v[1], RInt(1000))]]
    ELSE IF Len(time_bin_ms.v) = num_stim
    THEN [ok |-> TRUE,
          v |-> [i \in 1 .. Len(time_bin_ms.v) |->
                    RDiv(time_bin_ms.v[i], RInt(1000))]]
    ELSE [ok |-> FALSE, v |-> <<>>]

\* Pooling to new_bin_number bins: each new bin is the sum of
\* old_bin_count / new_bin_count contiguous bins, the remainder is dropped.
convert_to_new_bins(psth, new_bin_number) ==
    LET group == Len(psth[1][1]) \div new_bin_number
    IN  [c \in 1 .. Len(psth) |->
            [e \in 1 .. Len(psth[c]) |->
                [k \in 1 .. new_bin_number |->
                    SumSeq(SubSeq(psth[c][e], (k - 1) * group + 1, k * group))]]]

\* the centre of a pooled bin is the first centre of its group
convert_bins(bins, new_bin_number) ==
    LET group == Len(bins) \div new_bin_number
    IN  [k \in 1 .. new_bin_number |-> bins[(k - 1) * group + 1]]

\* a rational that binary64 holds exactly: numerators and denominators of
\* the model are far below 2^53
IsDyadic(r) == r[2] > 0 /\ \A i \in 2 .. Len(ToBits(r[2])) : ToBits(r[2])[i] = 0

\* bin_size = bins[1] - bins[0] and np.int32((n_bins * bin_size) /
\* time_bin_current) in binary64: the bin centres are the floats of
\* bins_sub / sampling_rate, time_bin_current the float of time_bin_ms / 1000
FloatBinNumber(n_bins, first, second, time_bin_ms) ==
    FloatTrunc(FloatQuot(FloatMul(FloatDiff(second, first), n_bins),
                         FloatDiv(FloatOfRat(time_bin_ms[1], time_bin_ms[2]),
                                  1000)))

\* The <<n_bins, bins[0], bins[1], time_bin_ms>> of the sessions below whose
\* values binary64 rounds: their bin numbers are computed once.
BinNumberCalls == {<<3, Rat(1, 200), Rat(3, 200), RInt(10)>>}
BinNumbers ==
    {<<a, FloatBinNumber(a[1], a[2], a[3], a[4])>> : a \in BinNumberCalls}

RoundedBinNumber(n_bins, first, second, time_bin_ms) ==
    IF <<n_bins, first, second, time_bin_ms>> \in BinNumberCalls
    THEN (CHOOSE p \in BinNumbers :
            p[1] = <<n_bins, first, second, time_bin_ms>>)[2]
    ELSE FloatBinNumber(n_bins, first, second, time_bin_ms)

\* the same where no operation rounds
ExactBinNumber(n_bins, bin_size, time_bin_current) ==
    Trunc(RDiv(RMul(RInt(n_bins), bin_size), time_bin_current))

\* no operand and no result of the computation is rounded (a time bin of 0
\* or less has no float in this model and is left to the exact arithmetic)
IsExact(n_bins, bins, time_bin_current) ==
    \/ time_bin_current[1] <= 0
    \/ /\ IsDyadic(bins[1])
       /\ IsDyadic(bins[2])
       /\ IsDyadic(time_bin_current)
       /\ IsDyadic(RDiv(RMul(RInt(n_bins), RSub(bins[2], bins[1])),
                        time_bin_current))

\* np.int32((n_bins * bin_size) / time_bin_current)
NewBinNumber(n_bins, bins, time_bin_current) ==
    IF IsExact(n_bins, bins, time_bin_current)
    THEN ExactBinNumber(n_bins, RSub(bins[2], bins[1]), time_bin_current)
    ELSE RoundedBinNumber(n_bins, bins[1], bins[2],
                          RMul(time_bin_current, RInt(1000)))

\* psth and bins of a stored entry as the stage uses them: re-binned when
\* the requested bin size gives another number of bins
RebinnedTo(entry, new_bin_number) ==
    IF new_bin_number # Len(entry.bins)
    THEN [psth |-> convert_to_new_bins(entry.psth, new_bin_number),
          bins |-> convert_bins(entry.bins, new_bin_number)]
    ELSE [psth |-> entry.psth, bins |-> entry.bins]

Rebinned(entry, time_bin_current) ==
    RebinnedTo(entry, NewBinNumber(Len(entry.bins), entry.bins, time_bin_current))

\* np.logical_and(bins >= w[0], bins <= w[1])
BinMask(bins, w) ==
    [k \in 1 .. Len(bins) |-> RGe(bins[k], w[1]) /\ RLe(bins[k], w[2])]

\* trials == trial
GroupMask(trials, trial) == [e \in 1 .. Len(trials) |-> trials[e] = trial]

\* psth[:, :, mask]
SelectBins(psth, mask) ==
    [c \in 1 .. Len(psth) |->
        [e \in 1 .. Len(psth[c]) |-> Pick(psth[c][e], mask)]]

RECURSIVE RSum(_)
RSum(s) == IF s = <<>> THEN RInt(0) ELSE RAdd(s[1], RSum(Tail(s)))

\* np.mean of a non-empty sequence of rationals
RMean(s) == RDiv(RSum(s), RInt(Len(s)))

\* np.mean(np.sum(bsl_trial, axis=2), axis=1) / (bsl[1] - bsl[0]) for one
\* cluster: rows are the baseline bins of the trials of the group
MeanBaselineRate(rows, bsl) ==
    RDiv(RMean([t \in 1 .. Len(rows) |-> RInt(SumSeq(rows[t]))]),
         RSub(bsl[2], bsl[1]))

(***************************************************************************)
(* get_raw_firing_rate(time_bin_ms, fr_window, mode, bsl_window,           *)
(* sm_time_ms).  bsl_window and sm_time_ms are Absent when not given       *)
(* (None).  A firing rate is [v |-> rate, sm |-> <<>>]; a rate that went   *)
(* through utils.gaussian_smoothing (not modelled as arithmetic) is        *)
(* [v |-> the rate before smoothing, sm |-> <<bin width, sm_std>>].        *)
(***************************************************************************)
FrCell(v, sm) == [v |-> v, sm |-> sm]

\* int((1 / ((bins[1] - bins[0]) * 1000))) * sm_time_ms[idx], plus one when
\* sm_std % 2 == 0
SmStd(bins, sm_time) ==
    LET sm_std ==
            RMul(RInt(Trunc(RDiv(RInt(1),
                                 RMul(RSub(bins[2], bins[1]), RInt(1000))))),
                 sm_time)
    IN  IF sm_std[2] = 1 /\ sm_std[1] % 2 = 0
        THEN RAdd(sm_std, RInt(1))
        ELSE sm_std

\* One iteration of the loop over self.psths.  stage is "lookup" when
\* stim_dict[stim] raises KeyError, "trial" when the first trial group raises
\* (a boolean index of the wrong length, or mean_fr read before assignment),
\* "done" otherwise.
\* one iteration of the loop once the events of the stimulus are found:
\* trials is its trial_groups, entry its PSTH in the requested bins
FrOfTrials(idx, A, trials, trial_set, entry) ==
    LET time_bin_current == A.time_bin_size[idx]
        bins == entry.bins
        fr_window_current == A.fr_windows[idx]
        fr_window_values == BinMask(bins, fr_window_current)
        fr_psth == SelectBins(entry.psth, fr_window_values)
        n_sel == Len(Pick(bins, fr_window_values))
        bsl_psth == SelectBins(entry.psth, BinMask(bins, A.bsl_windows[idx]))
        mean_fr(c, trial) ==
            MeanBaselineRate(Pick(bsl_psth[c], GroupMask(trials, trial)),
                             A.bsl_windows[idx])
        \* fr_trial of the group of event e, for cluster c and bin k
        fr_trial(c, e, k) ==
            IF A.mode = "raw"
            THEN FrCell(RDiv(RInt(fr_psth[c][e][k]), time_bin_current), <<>>)
            ELSE IF A.mode = "smooth"
            THEN FrCell(RDiv(RInt(fr_psth[c][e][k]), time_bin_current),
                        <<RSub(bins[2], bins[1]),
                          SmStd(bins, A.sm_time_ms[idx])>>)
            ELSE FrCell(RSub(RDiv(RInt(fr_psth[c][e][k]), time_bin_current),
                             mean_fr(c, trials[e])), <<>>)
        group(trial) == SortedSeq({e \in 1 .. Len(trials) : trials[e] = trial})
        \* np.nanmean(fr_trial, axis=1)
        group_mean(c, members, k) ==
            FrCell(RMean([i \in 1 .. Len(members) |->
                            fr_trial(c, members[i], k).v]),
                   IF A.mode = "smooth"
                   THEN <<RSub(bins[2], bins[1]), SmStd(bins, A.sm_time_ms[idx])>>
                   ELSE <<>>)
        raises ==
            /\ trial_set # <<>>
            /\ \/ Len(trials) # Len(entry.psth[1])
               \/ A.mode \notin {"raw", "smooth"} /\ ~A.baseline
    IN  IF raises
        THEN [stage |-> "trial",
              fr_window |-> fr_window_current,
              raw |-> [c \in 1 .. Len(fr_psth) |->
                        [e \in 1 .. Len(fr_psth[c]) |->
                            [k \in 1 .. n_sel |-> FrCell(RInt(0), <<>>)]]],
              mean |-> [c \in 1 .. Len(fr_psth) |->
                        [g \in 1 .. Len(trial_set) |->
                            [k \in 1 .. n_sel |-> FrCell(RInt(0), <<>>)]]]]
        ELSE [stage |-> "done",
              fr_window |-> fr_window_current,
              fr_bins |-> Pick(bins, fr_window_values),
              raw |-> [c \in 1 .. Len(fr_psth) |->
                        [e \in 1 .. Len(fr_psth[c]) |->
                            [k \in 1 .. n_sel |-> fr_trial(c, e, k)]]],
              mean |-> [c \in 1 .. Len(fr_psth) |->
                        [g \in 1 .. Len(trial_set) |->
                            [k \in 1 .. n_sel |->
                                group_mean(c, group(trial_set[g]), k)]]]]

\* the trial groups of the stimulus, for the loop body
FrOfEvents(idx, stimname, A, trials) ==
    FrOfTrials(idx, A, trials, Unique(trials),
               Rebinned(DGet(Val(psths), stimname), A.time_bin_size[idx]))

FrOfStimulus(idx, stimname, A) ==
    IF ~DHas(_get_key_for_stim, stimname)
    THEN [stage |-> "lookup"]
    ELSE FrOfEvents(idx, stimname, A,
                    DGet(events, DGet(_get_key_for_stim, stimname)).trial_groups)

\* the attributes after an iteration: prev before it, it the iteration's
\* outcome for the stimulus key
FrStep(prev, it, key) ==
    IF ~prev.ok THEN prev
    ELSE IF it.stage = "lookup" THEN [prev EXCEPT !.ok = FALSE]
    ELSE IF it.stage = "trial"
    THEN [prev EXCEPT
            !.ok = FALSE,
            !.fr_windows = DPut(@, key, it.fr_window),
            !.raw_firing_rate = DPut(@, key, it.raw),
            !.final_fr = DPut(@, key, it.mean)]
    ELSE [prev EXCEPT
            !.fr_windows = DPut(@, key, it.fr_window),
            !.fr_bins = DPut(@, key, it.fr_bins),
            !.raw_firing_rate = DPut(@, key, it.raw),
            !.final_fr = DPut(@, key, it.mean),
            !.assigned = TRUE]

\* The attributes after the first n iterations of the loop.  final_fr is the
\* local dict that self.mean_firing_rate refers to once assigned is TRUE.
RECURSIVE FrLoop(_, _, _)
FrLoop(n, keys, A) ==
    IF n = 0
    THEN [ok |-> TRUE, fr_windows |-> <<>>, fr_bins |-> <<>>,
          raw_firing_rate |-> <<>>, final_fr |-> <<>>, assigned |-> FALSE]
    ELSE FrStep(FrLoop(n - 1, keys, A), FrOfStimulus(n, keys[n], A), keys[n])

\* the checks before self.fr_windows = {}: the resolved arguments, or not ok
FrArguments(time_bin_ms, fr_window, mode, bsl_window, sm_time_ms) ==
    LET num_stim == Val(NUM_STIM)
        time_bin_size == TimeBinSizes(time_bin_ms, num_stim)
        baseline == IsSet(bsl_window)
        bsl_windows ==
            IF baseline THEN verify_window_format(Val(bsl_window), num_stim)
            ELSE [ok |-> TRUE, v |-> <<>>]
        fr_windows == verify_window_format(fr_window, num_stim)
        sm_ok ==
            mode = "smooth" =>
                /\ IsSet(sm_time_ms)
                /\ Val(sm_time_ms).kind = "list"
                    => Len(Val(sm_time_ms).v) = Len(fr_windows.v)
    IN  [ok |-> /\ time_bin_size.ok
                /\ bsl_windows.ok
                /\ baseline => mode = "bsl-subtracted"
                /\ fr_windows.ok
                /\ sm_ok,
         time_bin_size |-> time_bin_size.v,
         baseline |-> baseline,
         bsl_windows |-> bsl_windows.v,
         fr_windows |-> fr_windows.v,
         mode |-> mode,
         sm_time_ms |->
            IF ~IsSet(sm_time_ms) THEN <<>>
            ELSE IF Val(sm_time_ms).kind = "scalar"
            THEN [i \in 1 .. Len(fr_windows.v) |-> Val(sm_time_ms).v[1]]
            ELSE Val(sm_time_ms).v]

\* the attributes and the outcome once the loop has ended in L
FrOutcome(L) ==
    [result |-> IF L.ok THEN Ok ELSE Error,
     fr |-> [fr_windows |-> Some(L.fr_windows),
             fr_bins |-> Some(L.fr_bins),
             raw_firing_rate |-> Some(L.raw_firing_rate),
             mean_firing_rate |->
                 IF L.assigned THEN Some(L.final_fr)
                 ELSE fr.mean_firing_rate]]

\* the call from the resolved arguments A on
FrRun(A, keys) ==
    IF ~A.ok
    THEN \* AssertionError
         [result |-> Error, fr |-> fr]
    ELSE FrOutcome(FrLoop(Len(keys), keys, A))

\* the attributes and the outcome after the call
FiringRateCall(time_bin_ms, fr_window, mode, bsl_window, sm_time_ms) ==
    IF ~IsSet(psths)
    THEN \* raise Exception("Run get_raw_psth before ...")
         [result |-> Error, fr |-> fr]
    ELSE FrRun(FrArguments(time_bin_ms, fr_window, mode, bsl_window, sm_time_ms),
               DKeys(Val(psths)))

get_raw_firing_rate(time_bin_ms, fr_window, mode, bsl_window, sm_time_ms) ==
    \E done \in {FiringRateCall(time_bin_ms, fr_window, mode, bsl_window,
                                 sm_time_ms)} :
        /\ fr' = done.fr
        /\ call' = [op |-> "get_raw_firing_rate", result |-> done.result,
                    args |-> [time_bin_ms |-> time_bin_ms,
                              fr_window |-> fr_window, mode |-> mode,
                              bsl_window |-> bsl_window,
                              sm_time_ms |-> sm_time_ms]]

\* the stored entries, each as re-binned for its requested bin size
RebinnedEntries(time_bin_size) ==
    [n \in 1 .. Len(Val(psths)) |->
        <<Val(psths)[n][1], Rebinned(Val(psths)[n][2], time_bin_size[n])>>]

GetRawFiringRate_KeepsRebinned(time_bin_ms, fr_window, mode, bsl_window, sm_time_ms) ==
    /\ get_raw_firing_rate(time_bin_ms, fr_window, mode, bsl_window, sm_time_ms)
    /\ psths' = IF call'.result = Ok
                THEN Some(RebinnedEntries(
                        TimeBinSizes(time_bin_ms, Len(Val(psths))).v))
                ELSE psths
    /\ UNCHANGED <<file_path, spike, stim, events, NUM_STIM, multispike, zs, lat>>
    /\ UNCHANGED <<responsive_neurons, fn_args, fn_out>>
GetRawFiringRate(time_bin_ms, fr_window, mode, bsl_window, sm_time_ms) ==
    /\ get_raw_firing_rate(time_bin_ms, fr_window, mode, bsl_window, sm_time_ms)
    /\ UNCHANGED <<file_path, spike, stim, events, psths, NUM_STIM, multispike,
                   zs, lat>>
    /\ UNCHANGED <<responsive_neurons, fn_args, fn_out>>

(***************************************************************************)
(* z_score_data(time_bin_ms, bsl_window, z_window).  A z score z is kept   *)
(* as the rational sgn(z) * z^2, which is exact although np.std is a       *)
(* square root; NaN is the z score of a group whose baseline std is 0.     *)
(***************************************************************************)
\* np.std(sums)^2 / (bsl[1] - bsl[0])^2: the population variance
BaselineRateVariance(rows, bsl) ==
    LET sums == [t \in 1 .. Len(rows) |-> RInt(SumSeq(rows[t]))]
        mean == RMean(sums)
        dur == RSub(bsl[2], bsl[1])
    IN  RDiv(RMean([t \in 1 .. Len(sums) |->
                        RMul(RSub(sums[t], mean), RSub(sums[t], mean))]),
             RMul(dur, dur))

\* hf.z_score_values for one value: (rate - mean_fr) / std_fr
z_score_values(rate, mean_fr, var_fr) ==
    IF var_fr[1] = 0 THEN NaN
    ELSE LET d == RSub(rate, mean_fr)
         IN  RDiv(RMul(RInt(IF d[1] < 0 THEN -1 ELSE 1), RMul(d, d)), var_fr)

\* np.nanmean(z_trials, axis=1) for the rates of the trials of one group:
\* the NaN z scores are left out, and the mean of none is NaN.  The trials
\* of a group share mean_fr and std_fr, so the mean of the kept z scores is
\* the z score of the mean of their rates.
NanMeanOfZ_NaNAsZero(rates, mean_fr, var_fr) ==
    LET kept == [i \in 1 .. Len(rates) |->
                    ~IsNaN(z_score_values(rates[i], mean_fr, var_fr))]
    IN  IF Pick(rates, kept) = <<>> THEN RInt(0)
        ELSE z_score_values(RMean(Pick(rates, kept)), mean_fr, var_fr)
NanMeanOfZ(rates, mean_fr, var_fr) ==
    LET kept == [i \in 1 .. Len(rates) |->
                    ~IsNaN(z_score_values(rates[i], mean_fr, var_fr))]
    IN  IF Pick(rates, kept) = <<>> THEN NaN
        ELSE z_score_values(RMean(Pick(rates, kept)), mean_fr, var_fr)

\* one iteration of the loop once the events of the stimulus are found:
\* trials is its trial_groups, entry its PSTH in the requested bins
ZOfTrials(idx, A, trials, trial_set, entry) ==
    LET time_bin_current == A.time_bin_size[idx]
        bins == entry.bins
        bsl_current == A.bsl_windows[idx]
        z_window_current == A.z_windows[idx]
        z_window_values == BinMask(bins, z_window_current)
        bsl_psth == SelectBins(entry.psth, BinMask(bins, bsl_current))
        z_psth == SelectBins(entry.psth, z_window_values)
        n_sel == Len(Pick(bins, z_window_values))
        \* the z score of a rate against the baseline rows of a trial group
        z_of(rate, bsl_trial) ==
            z_score_values(rate,
                           MeanBaselineRate(bsl_trial, bsl_current),
                           BaselineRateVariance(bsl_trial, bsl_current))
        z_trials(c, e, k) ==
            z_of(RDiv(RInt(z_psth[c][e][k]), time_bin_current),
                 Pick(bsl_psth[c], GroupMask(trials, trials[e])))
        group(trial) == SortedSeq({e \in 1 .. Len(trials) : trials[e] = trial})
        group_mean(c, trial, members, k) ==
            NanMeanOfZ([i \in 1 .. Len(members) |->
                            RDiv(RInt(z_psth[c][members[i]][k]),
                                 time_bin_current)],
                       MeanBaselineRate(
                            Pick(bsl_psth[c], GroupMask(trials, trial)),
                            bsl_current),
                       BaselineRateVariance(
                            Pick(bsl_psth[c], GroupMask(trials, trial)),
                            bsl_current))
        raises == trial_set # <<>> /\ Len(trials) # Len(entry.psth[1])
    IN  IF raises
        THEN [stage |-> "trial",
              z_window |-> z_window_current,
              raw |-> [c \in 1 .. Len(z_psth) |->
                        [e \in 1 .. Len(z_psth[c]) |->
                            [k \in 1 .. n_sel |-> RInt(0)]]]]
        ELSE [stage |-> "done",
              z_window |-> z_window_current,
              z_bins |-> Pick(bins, z_window_values),
              raw |-> [c \in 1 .. Len(z_psth) |->
                        [e \in 1 .. Len(z_psth[c]) |->
                            [k \in 1 .. n_sel |-> z_trials(c, e, k)]]],
              mean |-> [c \in 1 .. Len(z_psth) |->
                        [g \in 1 .. Len(trial_set) |->
                            [k \in 1 .. n_sel |->
                                group_mean(c, trial_set[g],
                                           group(trial_set[g]), k)]]]]

\* the trial groups of the stimulus, for the loop body
ZOfEvents(idx, stimname, A, trials) ==
    ZOfTrials(idx, A, trials, Unique(trials),
              Rebinned(DGet(Val(psths), stimname), A.time_bin_size[idx]))

ZOfStimulus(idx, stimname, A) ==
    IF ~DHas(_get_key_for_stim, stimname)
    THEN [stage |-> "lookup"]
    ELSE ZOfEvents(idx, stimname, A,
                   DGet(events, DGet(_get_key_for_stim, stimname)).trial_groups)

\* the attributes after an iteration: prev before it, it the iteration's
\* outcome for the stimulus key
ZStep(prev, it, key) ==
    IF ~prev.ok THEN prev
    ELSE IF it.stage = "lookup" THEN [prev EXCEPT !.ok = FALSE]
    ELSE IF it.stage = "trial"
    THEN [prev EXCEPT
            !.ok = FALSE,
            !.z_windows = DPut(@, key, it.z_window),
            !.raw_zscores = DPut(@, key, it.raw)]
    ELSE [prev EXCEPT
            !.z_windows = DPut(@, key, it.z_window),
            !.z_bins = DPut(@, key, it.z_bins),
            !.raw_zscores = DPut(@, key, it.raw),
            !.final_z_scores = DPut(@, key, it.mean)]

RECURSIVE ZLoop(_, _, _)
ZLoop(n, keys, A) ==
    IF n = 0
    THEN [ok |-> TRUE, z_windows |-> <<>>, z_bins |-> <<>>,
          raw_zscores |-> <<>>, final_z_scores |-> <<>>]
    ELSE ZStep(ZLoop(n - 1, keys, A), ZOfStimulus(n, keys[n], A), keys[n])

\* the attributes and the outcome once the loop has ended in L
ZOutcome(L) ==
    [result |-> IF L.ok THEN Ok ELSE Error,
     zs |-> [z_windows |-> Some(L.z_windows),
             z_bins |-> Some(L.z_bins),
             raw_zscores |-> Some(L.raw_zscores),
             z_scores |-> IF L.ok THEN Some(L.final_z_scores)
                          ELSE zs.z_scores]]

\* the call from the verified arguments on
ZRun(time_bin_size, bsl_windows, z_windows, keys) ==
    IF ~(time_bin_size.ok /\ bsl_windows.ok /\ z_windows.ok)
    THEN \* AssertionError
         [result |-> Error, zs |-> zs]
    ELSE ZOutcome(ZLoop(Len(keys), keys,
                        [time_bin_size |-> time_bin_size.v,
                         bsl_windows |-> bsl_windows.v,
                         z_windows |-> z_windows.v]))

\* the attributes and the outcome after the call
ZScoreCall(time_bin_ms, bsl_window, z_window) ==
    IF ~IsSet(psths)
    THEN \* raise Exception("Run get_raw_psth before running z_score_data")
         [result |-> Error, zs |-> zs]
    ELSE ZRun(TimeBinSizes(time_bin_ms, Val(NUM_STIM)),
              verify_window_format(bsl_window, Val(NUM_STIM)),
              verify_window_format(z_window, Val(NUM_STIM)),
              DKeys(Val(psths)))

z_score_data(time_bin_ms, bsl_window, z_window) ==
    \E done \in {ZScoreCall(time_bin_ms, bsl_window, z_window)} :
        /\ zs' = done.zs
        /\ call' = [op |-> "z_score_data", result |-> done.result,
                    args |-> [time_bin_ms |-> time_bin_ms,
                              bsl_window |-> bsl_window,
                              z_window |-> z_window]]

ZScoreData(time_bin_ms, bsl_window, z_window) ==
    /\ z_score_data(time_bin_ms, bsl_window, z_window)
    /\ UNCHANGED <<file_path, spike, stim, events, psths, NUM_STIM, multispike,
                   fr, lat>>
    /\ UNCHANGED <<responsive_neurons, fn_args, fn_out>>

(***************************************************************************)
(* latencies(bsl_window, time_bin_ms, num_shuffles).  rand is the array    *)
(* np.random.rand returns for each stimulus: rand[idx][cluster][group]     *)
(* [shuffle], each value in [0, 1).  Latencies are stored in ms; a cell of *)
(* the np.empty arrays that was never assigned is Unwritten.               *)
(***************************************************************************)
Unwritten == <<0, -1>>

\* 1000 * lf.latency_...(...)
ToMs(latency) ==
    [t \in 1 .. Len(latency) |->
        IF IsNaN(latency[t]) THEN NaN ELSE RMul(RInt(1000), latency[t])]

\* if bsl_fr > 2
UsePoisson_AtLeast(bsl_fr) == RGe(bsl_fr, RInt(2))
UsePoisson(bsl_fr) == RGt(bsl_fr, RInt(2))

\* np.random.rand(...) * (current_bsl[1] - current_bsl[0]) + current_bsl[0]
ShuffledReference_NoOffset(r, current_bsl) ==
    RMul(r, RSub(current_bsl[2], current_bsl[1]))
ShuffledReference(r, current_bsl) ==
    RAdd(RMul(r, RSub(current_bsl[2], current_bsl[1])), current_bsl[1])

\* psth_by_trial[:, bins >= reference]
FromReference(rows, bins, reference) ==
    [t \in 1 .. Len(rows) |->
        Pick(rows[t], [k \in 1 .. Len(bins) |-> RGe(bins[k], reference)])]

\* the latency model applied for one cluster and trial group, real
\* (reference 0) or shuffled
EstimateLatency(bsl_fr, rows, bins, reference, final_time_bin_size) ==
    IF UsePoisson(bsl_fr)
    THEN ToMs(latency_core_stats(bsl_fr, FromReference(rows, bins, reference),
                                 final_time_bin_size))
    ELSE ToMs(latency_median(FromReference(rows, bins, reference),
                             final_time_bin_size))

\* np.mean(np.sum(psth[:, :, baseline bins], axis=2) / duration, axis=1)
BaselineValues(psth, bins, current_bsl) ==
    [c \in 1 .. Len(psth) |->
        RMean([e \in 1 .. Len(psth[c]) |->
                RDiv(RInt(SumSeq(Pick(psth[c][e], BinMask(bins, current_bsl)))),
                     RSub(current_bsl[2], current_bsl[1]))])]

\* The steps of the two inner loops of an iteration over self.psths are
\* numbered in the order they run: trial group g, cluster c, then the real
\* estimate (s = 0) and the shuffles s = 1 .. num_shuffles.
LatStep(g, c, s, n_clusters, num_shuffles) ==
    ((g - 1) * n_clusters + (c - 1)) * (num_shuffles + 1) + s + 1

\* the time the estimate of step s starts from: 0, or bsl_shuffled[...][s-1]
Reference(bsl_shuffled, c, g, s) ==
    IF s = 0 THEN RInt(0) ELSE bsl_shuffled[c][g][s]

\* The steps that raise: latency_core_stats raises (n_bin is never bound)
\* when the slice it is given has fewer than two bins.
RaisingSteps(n_groups, n_clusters, bins, num_shuffles, bsl_shuffled, bsl_values) ==
    {LatStep(x[1], x[2], x[3], n_clusters, num_shuffles) :
        x \in {y \in (1 .. n_groups) \X (1 .. n_clusters) \X (0 .. num_shuffles) :
                /\ UsePoisson(bsl_values[y[2]])
                /\ Len(FromReference(<<bins>>, bins,
                        Reference(bsl_shuffled, y[2], y[1], y[3]))[1]) < 2}}

\* the cells of a cluster's row that an assignment to [idx, trials == trial]
\* writes
WrittenCells_AllTrials(trials, trial) == 1 .. Len(trials)
WrittenCells(trials, trial) == {e \in 1 .. Len(trials) : trials[e] = trial}

\* The assignments to self.latency[stim] that ran, one per step before
\* first_raise: the cluster idx and the shuffle (0 for "latency") of the
\* cells written, and the events whose rows of current_psth[idx] were read.
LatWrites(trials, trial_set, n_clusters, num_shuffles, first_raise) ==
    {[step |-> LatStep(x[1], x[2], x[3], n_clusters, num_shuffles),
      cluster |-> x[2],
      shuffle |-> x[3],
      cells |-> WrittenCells(trials, trial_set[x[1]]),
      rows |-> [cluster |-> x[2],
                events |-> {e \in 1 .. Len(trials) :
                              GroupMask(trials, trial_set[x[1]])[e]}]] :
        x \in {y \in (1 .. Len(trial_set)) \X (1 .. n_clusters)
                        \X (0 .. num_shuffles) :
                 LatStep(y[1], y[2], y[3], n_clusters, num_shuffles)
                    < first_raise}}

\* the first step that raises and ends the call: 0 when the trial mask does
\* not fit current_psth, past the last step when none raises
FirstRaise(mismatch, raising, last) ==
    IF mismatch THEN 0
    ELSE IF raising = {} THEN last + 1
    ELSE Min(raising)

\* self.latency[stim] when the call leaves the iteration: the cells of the
\* steps after first_raise stay Unwritten
LatCells(trials, trial_set, psth, bins, num_shuffles, bsl_shuffled, bsl_values, first_raise) ==
    LET n_clusters == Len(psth)
        n_events == Len(psth[1])
        final_time_bin_size == RSub(bins[2], bins[1])
        group_of(e) == CHOOSE g \in 1 .. Len(trial_set) : trial_set[g] = trials[e]
        place_of(e) == Cardinality({x \in 1 .. e : trials[x] = trials[e]})
        estimate(c, e, g, s) ==
            IF LatStep(g, c, s, n_clusters, num_shuffles) < first_raise
            THEN EstimateLatency(bsl_values[c],
                                 Pick(psth[c], GroupMask(trials, trial_set[g])),
                                 bins, Reference(bsl_shuffled, c, g, s),
                                 final_time_bin_size)[place_of(e)]
            ELSE Unwritten
        cell(c, e, s) ==
            IF first_raise = 0 THEN Unwritten
            ELSE estimate(c, e, group_of(e), s)
    IN  [stage |-> IF first_raise > LatStep(Len(trial_set), n_clusters,
                                            num_shuffles, n_clusters, num_shuffles)
                   THEN "done" ELSE "trial",
         bsl_shuffled |-> bsl_shuffled,
         writes |-> LatWrites(trials, trial_set, n_clusters, num_shuffles,
                              first_raise),
         latency |->
            [latency |->
                [c \in 1 .. n_clusters |->
                    [e \in 1 .. n_events |-> cell(c, e, 0)]],
             latency_shuffled |->
                [c \in 1 .. n_clusters |->
                    [e \in 1 .. n_events |->
                        [s \in 1 .. num_shuffles |-> cell(c, e, s)]]]]]

\* the iteration from bsl_shuffled and bsl_values on
LatOfBaseline(trials, trial_set, psth, bins, num_shuffles, bsl_shuffled, bsl_values) ==
    LatCells(trials, trial_set, psth, bins, num_shuffles, bsl_shuffled,
             bsl_values,
             FirstRaise(Len(trials) # Len(psth[1]),
                        RaisingSteps(Len(trial_set), Len(psth), bins,
                                     num_shuffles, bsl_shuffled, bsl_values),
                        LatStep(Len(trial_set), Len(psth), num_shuffles,
                                Len(psth), num_shuffles)))

\* the iteration for the trial groups of the stimulus and its PSTH in the
\* requested bins
LatOfTrials(trials, trial_set, current_bsl, psth, bins, num_shuffles, rand) ==
    LatOfBaseline(trials, trial_set, psth, bins, num_shuffles,
                  [c \in 1 .. Len(psth) |->
                      [g \in 1 .. Len(trial_set) |->
                          [s \in 1 .. num_shuffles |->
                              ShuffledReference(rand[c][g][s], current_bsl)]]],
                  BaselineValues(psth, bins, current_bsl))

LatOfRebinned(trials, current_bsl, entry, num_shuffles, rand) ==
    LatOfTrials(trials, Unique(trials), current_bsl, entry.psth, entry.bins,
                num_shuffles, rand)

\* one iteration of the loop over self.psths
LatOfStimulus(idx, stimname, bsl_windows, time_bin_ms, num_shuffles, rand) ==
    IF ~DHas(_get_key_for_stim, stimname)
    THEN [stage |-> "lookup"]
    ELSE LatOfRebinned(
            DGet(events, DGet(_get_key_for_stim, stimname)).trial_groups,
            bsl_windows[idx],
            Rebinned(DGet(Val(psths), stimname), RDiv(time_bin_ms, RInt(1000))),
            num_shuffles, rand)

\* the attributes after an iteration: prev before it, it the iteration's
\* outcome for the stimulus key
LatStepOf(prev, it, key) ==
    IF ~prev.ok THEN prev
    ELSE IF it.stage = "lookup" THEN [prev EXCEPT !.ok = FALSE]
    ELSE [ok |-> it.stage = "done",
          latency |-> DPut(prev.latency, key, it.latency),
          bsl_shuffled |-> DPut(prev.bsl_shuffled, key, it.bsl_shuffled),
          writes |-> DPut(prev.writes, key, it.writes)]

RECURSIVE LatLoop(_, _, _, _, _, _)
LatLoop(n, keys, bsl_windows, time_bin_ms, num_shuffles, rand) ==
    IF n = 0
    THEN [ok |-> TRUE, latency |-> <<>>, bsl_shuffled |-> <<>>,
          writes |-> <<>>]
    ELSE LatStepOf(LatLoop(n - 1, keys, bsl_windows, time_bin_ms, num_shuffles,
                           rand),
                   LatOfStimulus(n, keys[n], bsl_windows, time_bin_ms,
                                 num_shuffles, rand[n]),
                   keys[n])

\* self._latency_time_bin when NUM_STIM = self.NUM_STIM has raised
\* AttributeError: the assignment comes after the read
LatencyTimeBinUnlessPsth_Assigned(time_bin_ms) == Some(time_bin_ms)
LatencyTimeBinUnlessPsth(time_bin_ms) == lat.latency_time_bin

\* the attributes and the outcome once the loop has ended in L
LatOutcome(L, time_bin_ms) ==
    [result |-> IF L.ok THEN Ok ELSE Error,
     lat |-> [latency |-> Some(L.latency),
              latency_time_bin |-> Some(time_bin_ms),
              bsl_shuffled |-> Some(L.bsl_shuffled),
              writes |-> Some(L.writes)]]

\* the call from the verified baseline windows on
LatRun(bsl_windows, keys, time_bin_ms, num_shuffles, rand) ==
    IF ~bsl_windows.ok
    THEN \* AssertionError, after self._latency_time_bin = time_bin_ms
         [result |-> Error,
          lat |-> [lat EXCEPT !.latency_time_bin = Some(time_bin_ms)]]
    ELSE LatOutcome(LatLoop(Len(keys), keys, bsl_windows.v, time_bin_ms,
                            num_shuffles, rand),
                    time_bin_ms)

\* the attributes and the outcome after the call
LatenciesCall(bsl_window, time_bin_ms, num_shuffles, rand) ==
    IF ~IsSet(NUM_STIM)
    THEN \* AttributeError: self.NUM_STIM
         [result |-> Error,
          lat |-> [lat EXCEPT !.latency_time_bin =
                                  LatencyTimeBinUnlessPsth(time_bin_ms)]]
    ELSE LatRun(verify_window_format(bsl_window, Val(NUM_STIM)),
                DKeys(Val(psths)), time_bin_ms, num_shuffles, rand)

latencies(bsl_window, time_bin_ms, num_shuffles, rand) ==
    \E done \in {LatenciesCall(bsl_window, time_bin_ms, num_shuffles, rand)} :
        /\ lat' = done.lat
        /\ call' = [op |-> "latencies", result |-> done.result,
                    args |-> [bsl_window |-> bsl_window,
                              time_bin_ms |-> time_bin_ms,
                              num_shuffles |-> num_shuffles]]

\* the shapes np.random.rand is called with: per stimulus, clusters x the
\* largest number of trial groups x num_shuffles
RandShapes(num_shuffles, grid) ==
    IF ~IsSet(psths) THEN {<<>>}
    ELSE LET keys == DKeys(Val(psths))
             groups == {Len(Unique(events[n][2].trial_groups)) :
                            n \in 1 .. Len(events)}
         IN  [1 .. Len(keys) ->
                [1 .. Len(Val(spike).cluster_ids) ->
                    [1 .. Max(groups) -> [1 .. num_shuffles -> grid]]]]

Latencies(bsl_window, time_bin_ms, num_shuffles, grid) ==
    /\ \E rand \in RandShapes(num_shuffles, grid) :
            latencies(bsl_window, time_bin_ms, num_shuffles, rand)
    /\ UNCHANGED <<file_path, spike, stim, events, psths, NUM_STIM, multispike,
                   fr, zs>>
    /\ UNCHANGED <<responsive_neurons, fn_args, fn_out>>

(***************************************************************************)
(* The recordings, stimuli and arguments the sessions are run on.          *)
(* The recording is sampled at 1000 Hz; spike and event times are in       *)
(* samples, windows in seconds, bin sizes in milliseconds.                 *)
(***************************************************************************)
\* the largest number of spikes in a recording
MaxSpikes == 2

SpikeTimes == {500, 600, 700, 1100, 1200, 1750, 2000}
ClusterIds == <<1, 2>>
SpikeCandidates == SpikeTimes \X SeqRange(ClusterIds)

\* a set of <<time, cluster>> spikes as the two parallel arrays, by time
SpikeKeys(S) == SortedSeq({sc[1] * 10 + sc[2] : sc \in S})

Recording(path, S) ==
    [file_path |-> path,
     raw_spike_times |-> [i \in 1 .. Len(SpikeKeys(S)) |-> SpikeKeys(S)[i] \div 10],
     spike_clusters |-> [i \in 1 .. Len(SpikeKeys(S)) |-> SpikeKeys(S)[i] % 10],
     cids |-> ClusterIds,
     sampling_rate |-> 1000]

SpikeSets == {S \in SUBSET SpikeCandidates : Cardinality(S) <= MaxSpikes}
Recordings == {Recording("rec1", S) : S \in SpikeSets}

Channel(evts, trial_groups, name) ==
    [events |-> evts, trial_groups |-> trial_groups, stim |-> name]

Stimulus(path, digital, dig_analog) ==
    [file_path |-> path, digital_events |-> digital,
     dig_analog_events |-> dig_analog, analog_data |-> Absent]

DigitalEvents ==
    {<< <<"DIG1", Channel(<<1000, 2500>>, <<1, 1>>, "a")>> >>,
     << <<"DIG1", Channel(<<1000, 2500>>, <<1, 2>>, "a")>> >>,
     << <<"DIG1", Channel(<<1000, 1250>>, <<1, 2>>, "a")>> >>}
AnalogEvents == {<< <<"ADC1", Channel(<<1000, 2500>>, <<1, 1>>, "b")>> >>}

Stimuli ==
    {Stimulus("rec1", Some(d), Absent) : d \in DigitalEvents}
    \cup {Stimulus("rec1", Some(d), Some(a)) :
            d \in DigitalEvents, a \in AnalogEvents}
    \cup {Stimulus("rec1", Absent, Some(a)) : a \in AnalogEvents}
    \cup {Stimulus("rec1", Absent, Absent)}

Single(start, end) == [kind |-> "single", v |-> << <<start, end>> >>]
Nested(ws) == [kind |-> "nested", v |-> ws]

PsthWindows ==
    {Single(Rat(-1, 2), Rat(3, 4)),
     Nested(<< <<Rat(-1, 2), Rat(3, 4)>> >>),
     Nested(<< <<Rat(-1, 2), Rat(3, 4)>>, <<Rat(-1, 4), Rat(1, 2)>> >>)}

\* 0.5 ms is below the sampling interval; 250.5 ms is not a whole number
\* of samples
PsthTimeBins == {Rat(1, 2), RInt(250), Rat(501, 2)}

(***************************************************************************)
(* Sessions that load one recording and one stimulus set and build PSTHs.  *)
(***************************************************************************)
Init ==
    /\ InitSession
    /\ fn_args = <<>>
    /\ fn_out = NoFnCall

NextPsth ==
    \/ /\ ~IsSet(spike)
       /\ \E sp \in Recordings : SetSpikeData(sp)
    \/ /\ events = <<>>
       /\ \E st \in Stimuli : SetStimulusData(st)
    \/ \E w \in PsthWindows, tb \in PsthTimeBins : GetRawPsth(w, tb)

SpecPsth == Init /\ [][NextPsth]_vars


(***************************************************************************)
(* Claims about get_raw_psth                                               *)
(***************************************************************************)
\* the state right after a get_raw_psth call that stored its PSTHs
PsthJustStored == call.op = "get_raw_psth" /\ call.result = Ok

\* the window that call applied to the idx-th stimulus
CallWindow(idx) ==
    IF call.args.window.kind = "single" THEN call.args.window.v[1]
    ELSE call.args.window.v[idx]

StoredPsth(idx) == DGet(Val(psths), events[idx][2].stim).psth

\* the spikes of a cluster with event + start <= time < event + end (seconds)
SpikesInWindow(cluster, event, w) ==
    LET sa == Val(spike)
    IN  {i \in 1 .. Len(sa.raw_spike_times) :
            /\ sa.spike_clusters[i] = cluster
            /\ RGe(Rat(sa.raw_spike_times[i] - event, sa.sampling_rate), w[1])
            /\ RLt(Rat(sa.raw_spike_times[i] - event, sa.sampling_rate), w[2])}

\* C6: PSTH conservation with left-closed bins.  For every cluster and every
\* event the sum of the event's PSTH row is the number of the cluster's
\* spikes in [event_onset + window_start, event_onset + window_end).
C6_PsthConservation ==
    PsthJustStored =>
        \A idx \in 1 .. Len(events) :
            \A idy \in 1 .. Len(Val(spike).cluster_ids) :
                \A e \in 1 .. Len(events[idx][2].events) :
                    SumSeq(StoredPsth(idx)[idy][e]) =
                        Cardinality(SpikesInWindow(Val(spike).cluster_ids[idy],
                                                   events[idx][2].events[e],
                                                   CallWindow(idx)))

\* the (cluster, event, bin) cells of a PSTH with more than one spike
MultispikeCells(psth) ==
    {c \in (1 .. Len(psth)) \X (1 .. Len(psth[1])) \X (1 .. Len(psth[1][1])) :
        psth[c[1]][c[2]][c[3]] > 1}

\* C7: the multi-spike diagnostic reported for a stimulus is the number of
\* (cluster, event, bin) cells of its PSTH whose count is greater than 1.
C7_MultispikeIsCellCount ==
    PsthJustStored =>
        \A idx \in 1 .. Len(events) :
            multispike[idx] = Cardinality(MultispikeCells(StoredPsth(idx)))

\* floor of a rational
Floor(x) == x[1] \div x[2]

\* C8: every stored PSTH has shape (clusters, events,
\* floor((window_end - window_start) / bin_size)) and non-negative integer
\* entries, bin_size being the time_bin_ms of the call.
C8_PsthShape ==
    PsthJustStored =>
        \A idx \in 1 .. Len(events) :
            LET psth == StoredPsth(idx)
                w == CallWindow(idx)
                bin_size == RDiv(call.args.time_bin_ms, RInt(1000))
            IN  /\ Len(psth) = Len(Val(spike).cluster_ids)
                /\ \A c \in 1 .. Len(psth) :
                    /\ Len(psth[c]) = Len(events[idx][2].events)
                    /\ \A e \in 1 .. Len(psth[c]) :
                        /\ Len(psth[c][e]) = Floor(RDiv(RSub(w[2], w[1]), bin_size))
                        /\ \A k \in 1 .. Len(psth[c][e]) : psth[c][e][k] \in Nat


(***************************************************************************)
(* get_responsive_neurons(z_parameters).  parameter_file is the content of *)
(* z_parameters.json in the working directory, or Absent.  Parameters are  *)
(* a dict from "all" or from stimulus names to response profiles, a        *)
(* profile a dict entry <<key, [time, score, n_bins]>>.                    *)
(***************************************************************************)
\* the profile keys with "inhib" in key.lower()
InhibKeys == {"inhibitory", "Inhibited"}

\* a z score is kept as sgn(z) * z^2: the score to compare it with
SignedSquare(x) == RMul(RInt(IF x[1] < 0 THEN -1 ELSE 1), RMul(x, x))

\* np.logical_and(bins > w[0], bins < w[1]), or-ed with the same for w[2]
\* and w[3] when there are four endpoints
WindowIndex_Closed(bins, current_window) ==
    [k \in 1 .. Len(bins) |->
        \/ RGe(bins[k], current_window[1]) /\ RLe(bins[k], current_window[2])
        \/ /\ Len(current_window) = 4
           /\ RGe(bins[k], current_window[3])
           /\ RLe(bins[k], current_window[4])]
WindowIndex(bins, current_window) ==
    [k \in 1 .. Len(bins) |->
        \/ RGt(bins[k], current_window[1]) /\ RLt(bins[k], current_window[2])
        \/ /\ Len(current_window) = 4
           /\ RGt(bins[k], current_window[3])
           /\ RLt(bins[k], current_window[4])]

\* np.where(z > current_score, 1, 0), or z < current_score for an
\* inhibitory profile with a score of 0 or less; NaN compares False
BeyondScore(z, key, current_score) ==
    /\ ~IsNaN(z)
    /\ IF current_score[1] > 0 \/ key \notin InhibKeys
       THEN RGt(z, SignedSquare(current_score))
       ELSE RLt(z, SignedSquare(current_score))

\* np.where(z_above_threshold > current_n_bins, True, False)
ResponsiveOf(current_z_scores, window_index, key, value) ==
    [c \in 1 .. Len(current_z_scores) |->
        [g \in 1 .. Len(current_z_scores[c]) |->
            Cardinality({k \in 1 .. Len(window_index) :
                /\ window_index[k]
                /\ BeyondScore(current_z_scores[c][g][k], key, value.score)})
                > value.n_bins]]

\* one profile of the loop over current_z_params.items()
ProfileStep(prev, key, value, current_z_scores, bins) ==
    IF ~prev.ok THEN prev
    ELSE IF Len(value.time) \notin {2, 4}
    THEN \* raise Exception("Not implmented for window of size ...")
         [prev EXCEPT !.ok = FALSE]
    ELSE [prev EXCEPT
            !.out = DPut(@, key,
                         ResponsiveOf(current_z_scores,
                                      WindowIndex(bins, value.time),
                                      key, value))]

RECURSIVE ProfileLoop(_, _, _, _)
ProfileLoop(n, current_z_params, current_z_scores, bins) ==
    IF n = 0 THEN [ok |-> TRUE, out |-> <<>>]
    ELSE ProfileStep(ProfileLoop(n - 1, current_z_params, current_z_scores,
                                 bins),
                     current_z_params[n][1], current_z_params[n][2],
                     current_z_scores, bins)

\* self.responsive_neurons[stim] as the profiles of the stimulus left it
StimDone(prev, name, P) ==
    [ok |-> P.ok, out |-> DPut(prev.out, name, P.out)]

\* one stimulus of the loop over self.z_scores.keys()
ResponsiveStep(prev, name, z_parameters) ==
    IF ~prev.ok THEN prev
    ELSE IF \/ ~DHas(Val(zs.z_bins), name)
            \/ ~DHas(z_parameters, "all") /\ ~DHas(z_parameters, name)
    THEN \* KeyError, after self.responsive_neurons[name] = {}
         [ok |-> FALSE, out |-> DPut(prev.out, name, <<>>)]
    ELSE StimDone(prev, name,
                  ProfileLoop(
                      Len(DGet(z_parameters,
                               IF DHas(z_parameters, "all") THEN "all"
                               ELSE name)),
                      DGet(z_parameters,
                           IF DHas(z_parameters, "all") THEN "all" ELSE name),
                      DGet(Val(zs.z_scores), name),
                      DGet(Val(zs.z_bins), name)))

RECURSIVE ResponsiveLoop(_, _, _)
ResponsiveLoop(n, keys, z_parameters) ==
    IF n = 0 THEN [ok |-> TRUE, out |-> <<>>]
    ELSE ResponsiveStep(ResponsiveLoop(n - 1, keys, z_parameters), keys[n],
                        z_parameters)

ResponsiveOutcome(L) ==
    [ok |-> L.ok, responsive_neurons |-> Some(L.out)]

\* the outcome of the call and self.responsive_neurons after it
ResponsiveCall(z_parameters, parameter_file) ==
    IF ~IsSet(parameter_file) /\ ~IsSet(z_parameters)
    THEN \* raise Exception("There must be either json z parameter ...")
         [ok |-> FALSE, responsive_neurons |-> responsive_neurons]
    ELSE IF ~IsSet(zs.z_scores)
    THEN \* AttributeError: self.z_scores, after self.responsive_neurons = {}
         [ok |-> FALSE, responsive_neurons |-> Some(<<>>)]
    ELSE ResponsiveOutcome(
            ResponsiveLoop(Len(Val(zs.z_scores)), DKeys(Val(zs.z_scores)),
                           IF IsSet(parameter_file) THEN Val(parameter_file)
                           ELSE Val(z_parameters)))

get_responsive_neurons(z_parameters, parameter_file) ==
    \E done \in {ResponsiveCall(z_parameters, parameter_file)} :
        /\ responsive_neurons' = done.responsive_neurons
        /\ call' = [op |-> "get_responsive_neurons",
                    result |-> IF done.ok THEN Ok ELSE Error,
                    args |-> [z_parameters |-> z_parameters,
                              parameter_file |-> parameter_file]]

GetResponsiveNeurons(z_parameters, parameter_file) ==
    /\ get_responsive_neurons(z_parameters, parameter_file)
    /\ UNCHANGED <<file_path, spike, stim, events, psths, NUM_STIM, multispike,
                   fr, zs, lat>>
    /\ UNCHANGED fnVars

(***************************************************************************)
(* The latency functions called on their own, on every count array of the  *)
(* shapes below with counts up to MaxCount.                                *)
(***************************************************************************)
\* the largest spike count of one bin
MaxCount == 2

\* <<trials, bins>>
FnShapes == {<<1, 2>>, <<1, 4>>, <<2, 3>>}
FnRates == {RInt(3), RInt(10)}
FnTimeBins == {Rat(1, 1000), Rat(1, 100)}

FnArgs ==
    UNION {[bsl_fr : FnRates,
            firing_data : [1 .. sh[1] -> [1 .. sh[2] -> 0 .. MaxCount]],
            time_bin_size : FnTimeBins] : sh \in FnShapes}

InitFn ==
    /\ InitSession
    /\ fn_args \in FnArgs
    /\ fn_out = NoFnCall

CallLatencyCoreStats ==
    /\ fn_out' = [fn |-> "latency_core_stats",
                  latency |-> latency_core_stats(fn_args.bsl_fr,
                                                 fn_args.firing_data,
                                                 fn_args.time_bin_size)]
    /\ UNCHANGED <<fn_args, multispike, call>>
    /\ UNCHANGED sessionVars

CallLatencyMedian ==
    /\ fn_out' = [fn |-> "latency_median",
                  latency |-> latency_median(fn_args.firing_data,
                                             fn_args.time_bin_size)]
    /\ UNCHANGED <<fn_args, multispike, call>>
    /\ UNCHANGED sessionVars

NextFn == CallLatencyCoreStats \/ CallLatencyMedian

SpecFn == InitFn /\ [][NextFn]_vars

(***************************************************************************)
(* Claims about the latency functions                                      *)
(***************************************************************************)
\* the numbers n >= 1 of leading bins, up to the last-but-one bin, with
\* P = 1 - PoissonCDF(S_n - 1; baseline_rate * n * bin_size) <= 1e-5
ThresholdBins(row) ==
    {n \in 1 .. Len(row) - 1 :
        FinalProb(fn_args.bsl_fr, row, n - 1, fn_args.time_bin_size) <= Threshold}

\* C1: the Poisson-survival latency is per trial.  For every trial row the
\* returned latency is n * bin_size, n the smallest number of leading bins
\* that meets the threshold.  (Stated for the trials whose n lies before
\* the last-but-one bin; C2 is about that bin.)
C1_PoissonLatencyPerTrial ==
    fn_out.fn = "latency_core_stats" =>
        \A trial \in 1 .. Len(fn_args.firing_data) :
            LET hits == ThresholdBins(fn_args.firing_data[trial])
            IN  (hits # {} /\ Min(hits) < Len(fn_args.firing_data[trial]) - 1)
                    => fn_out.latency[trial] =
                          RMul(RInt(Min(hits)), fn_args.time_bin_size)

\* C2: a trial's Poisson-survival latency is NaN exactly when no bin up to
\* and including the last-but-one bin meets the threshold.  (Stated for the
\* last trial row, the one whose latency the function stores.)
C2_NaNIffNoThresholdBin ==
    fn_out.fn = "latency_core_stats" =>
        LET last == Len(fn_args.firing_data)
        IN  IsNaN(fn_out.latency[last])
                <=> ThresholdBins(fn_args.firing_data[last]) = {}

\* C3: the median-first-spike latency of a trial is (i + 1) * bin_size, i the
\* index of its first bin with a non-zero count, and NaN when it has no such
\* bin; a first spike at bin index 3 with 10 ms bins gives 40 ms.
C3_MedianFirstSpike ==
    fn_out.fn = "latency_median" =>
        \A trial \in 1 .. Len(fn_args.firing_data) :
            LET row == fn_args.firing_data[trial]
            IN  /\ (\A k \in 1 .. Len(row) : row[k] = 0)
                    => IsNaN(fn_out.latency[trial])
                /\ \A i \in 0 .. Len(row) - 1 :
                    (row[i + 1] # 0 /\ \A j \in 0 .. i - 1 : row[j + 1] = 0)
                        => /\ fn_out.latency[trial] =
                                RMul(RInt(i + 1), fn_args.time_bin_size)
                           /\ (i = 3 /\ fn_args.time_bin_size = Rat(10, 1000))
                                => RMul(RInt(1000), fn_out.latency[trial])
                                        = RInt(40)

C3_Witness ==
    /\ fn_out.fn = "latency_median"
    /\ fn_args.time_bin_size = Rat(10, 1000)
    /\ fn_args.firing_data = << <<0, 0, 0, 2>> >>
    /\ fn_out.latency = <<Rat(40, 1000)>>


(***************************************************************************)
(* Sessions that load their data, build the PSTHs and run the derivation   *)
(* stages, each stage any number of times and in any order.                *)
(***************************************************************************)
\* cluster 1 has a baseline rate of 3 Hz in the first set and of exactly
\* 2 Hz in the second, for the baseline window [-0.5, 0] and the events below
SeqSpikeSets ==
    {{<<600, 1>>, <<700, 1>>, <<1100, 1>>, <<2000, 1>>, <<1200, 2>>},
     {<<600, 1>>, <<700, 1>>}}
SeqRecordings == {Recording("rec1", S) : S \in SeqSpikeSets}

SeqDigital == << <<"DIG1", Channel(<<1000, 2500>>, <<1, 2>>, "a")>> >>
SeqStimuli ==
    {Stimulus("rec1", Some(SeqDigital), Absent)}
    \cup {Stimulus("rec1", Some(SeqDigital), Some(a)) : a \in AnalogEvents}

Scalar(x) == [kind |-> "scalar", v |-> <<x>>]
List(xs) == [kind |-> "list", v |-> xs]

SeqWindow == Single(Rat(-1, 2), Rat(3, 4))
SeqBaseline == Single(Rat(-1, 2), RInt(0))
SeqResponse == Single(RInt(0), Rat(3, 4))
SeqTimeBin == RInt(250)
\* <<mode, bsl_window, sm_time_ms>>
SeqFrCalls ==
    {<<"raw", Absent, Absent>>,
     <<"raw", Some(SeqBaseline), Absent>>,
     <<"smooth", Absent, Absent>>,
     <<"smooth", Absent, Some(Scalar(RInt(500)))>>,
     <<"bsl-subtracted", Absent, Absent>>,
     <<"bsl-subtracted", Some(SeqBaseline), Absent>>}

DerivationStages == {"get_raw_firing_rate", "z_score_data", "latencies"}

Next ==
    \/ /\ ~IsSet(psths)
       /\ \E sp \in SeqRecordings : SetSpikeData(sp)
    \/ /\ ~IsSet(psths)
       /\ \E st \in SeqStimuli : SetStimulusData(st)
    \/ GetRawPsth(SeqWindow, SeqTimeBin)
    \/ \E a \in SeqFrCalls :
            GetRawFiringRate(Scalar(SeqTimeBin), SeqResponse, a[1], a[2], a[3])
    \/ \E time_bin_ms \in {Scalar(SeqTimeBin), List(<<SeqTimeBin>>)} :
            ZScoreData(time_bin_ms, SeqBaseline, SeqResponse)
    \/ \E bsl_window \in {SeqBaseline, Nested(SeqBaseline.v)} :
            Latencies(bsl_window, SeqTimeBin, 1, {Rat(1, 2)})

Spec == Init /\ [][Next]_vars

(***************************************************************************)
(* Claims about the order of the stages and their arguments                *)
(***************************************************************************)
\* C9: a derivation stage (get_raw_firing_rate, z_score_data, latencies)
\* invoked while no PSTH is stored ends in an error, stores no firing-rate,
\* z-score or latency result and leaves every attribute of the session as
\* it was.
C9_DerivationNeedsPsth ==
    [][(~IsSet(psths) /\ call'.op \in DerivationStages)
        => (call'.result = Error /\ UNCHANGED <<sessionVars, multispike>>)]_vars

\* latencies has been refused in a session whose spikes and events are
\* loaded but whose PSTH has not been built
C9_Witness ==
    /\ ~IsSet(psths)
    /\ IsSet(spike)
    /\ events # <<>>
    /\ call.op = "latencies"
    /\ call.result = Error
    /\ lat.latency_time_bin = Absent

\* a required parameter of the mode is missing
MissingModeParameter(a) ==
    \/ a.mode = "smooth" /\ ~IsSet(a.sm_time_ms)
    \/ a.mode = "bsl-subtracted" /\ ~IsSet(a.bsl_window)

\* C10: get_raw_firing_rate called in mode 'smooth' without a smoothing
\* time, or in mode 'bsl-subtracted' without a baseline window, ends in an
\* error and fr_windows, fr_bins, raw_firing_rate and mean_firing_rate keep
\* the values they had before the call.
C10_ModeParameterRequired ==
    [][(call'.op = "get_raw_firing_rate" /\ MissingModeParameter(call'.args))
        => (call'.result = Error /\ fr' = fr)]_vars

(***************************************************************************)
(* Sessions that load one recording and one stimulus set, build the PSTH   *)
(* at 250 ms bins and run latencies once.                                  *)
(***************************************************************************)
LatSpikeCandidates ==
    {<<800, 1>>, <<900, 1>>, <<1100, 1>>, <<1200, 1>>, <<1100, 2>>}
LatRecordings ==
    {Recording("rec1", S) :
        S \in {X \in SUBSET LatSpikeCandidates : Cardinality(X) <= MaxSpikes}}

LatDigital ==
    {<< <<"DIG1", Channel(<<1000, 2500>>, <<1, 1>>, "a")>> >>,
     << <<"DIG1", Channel(<<1000, 1250>>, <<1, 2>>, "a")>> >>}
LatStimuli == {Stimulus("rec1", Some(d), Absent) : d \in LatDigital}

\* <<bsl_window, time_bin_ms, num_shuffles>>; 500 ms re-bins the PSTH to
\* two bins, of which one is at or after the onset
LatCalls ==
    {<<Single(Rat(-1, 4), RInt(0)), RInt(250), 1>>,
     <<Single(Rat(-1, 4), RInt(0)), RInt(250), 2>>,
     <<Single(Rat(-1, 2), RInt(0)), RInt(500), 1>>}
\* the values np.random.rand is taken to return
RandGrid == {RInt(0), Rat(3, 4)}

NextLat ==
    \/ /\ ~IsSet(spike)
       /\ \E sp \in LatRecordings : SetSpikeData(sp)
    \/ /\ events = <<>>
       /\ \E st \in LatStimuli : SetStimulusData(st)
    \/ /\ ~IsSet(psths)
       /\ GetRawPsth(SeqWindow, SeqTimeBin)
    \/ /\ lat.latency_time_bin = Absent
       /\ \E a \in LatCalls : Latencies(a[1], a[2], a[3], RandGrid)

SpecLat == Init /\ [][NextLat]_vars

(***************************************************************************)
(* Claims about latencies.  They are stated on the state right after a     *)
(* latencies call that returned, from the stored PSTH and the arguments    *)
(* of the call.                                                            *)
(***************************************************************************)
LatenciesReturned == call.op = "latencies" /\ call.result = Ok

\* what the call worked on for the n-th stimulus
LatView(n) ==
    LET key == Val(psths)[n][1]
        entry == Rebinned(Val(psths)[n][2],
                          RDiv(call.args.time_bin_ms, RInt(1000)))
        trials == DGet(events, DGet(_get_key_for_stim, key)).trial_groups
    IN  [psth |-> entry.psth,
         bins |-> entry.bins,
         size |-> RSub(entry.bins[2], entry.bins[1]),
         trials |-> trials,
         trial_set |-> Unique(trials),
         bsl |-> verify_window_format(call.args.bsl_window, Val(NUM_STIM)).v[n],
         out |-> DGet(Val(lat.latency), key),
         refs |-> DGet(Val(lat.bsl_shuffled), key)]

\* the events of the g-th trial group, in order
Members(V, g) ==
    SortedSeq({e \in 1 .. Len(V.trials) : V.trials[e] = V.trial_set[g]})

\* the PSTH rows of cluster c for the g-th trial group, from the reference on
GroupData(V, c, g, reference) ==
    FromReference([i \in 1 .. Len(Members(V, g)) |->
                      V.psth[c][Members(V, g)[i]]],
                  V.bins, reference)

\* the cluster's baseline rate: the mean over the events of the stimulus of
\* the baseline count divided by the length of the baseline window
BaselineRate(V, c) ==
    RMean([e \in 1 .. Len(V.psth[c]) |->
            RDiv(RInt(SumSeq(Pick(V.psth[c][e], BinMask(V.bins, V.bsl)))),
                 RSub(V.bsl[2], V.bsl[1]))])

PoissonMs(V, c, g, reference) ==
    ToMs(latency_core_stats(BaselineRate(V, c), GroupData(V, c, g, reference),
                            V.size))
MedianMs(V, c, g, reference) ==
    ToMs(latency_median(GroupData(V, c, g, reference), V.size))

\* C4: for every cluster and trial group the stored latencies are those of
\* the Poisson model if the cluster's baseline rate is above 2 Hz and those
\* of the median model otherwise (also at exactly 2 Hz), and every shuffled
\* latency of the cell comes from the same model as the real one.
C4_ModelByBaselineRate ==
    LatenciesReturned =>
        \A n \in 1 .. Len(Val(psths)) :
            \A c \in 1 .. Len(LatView(n).psth) :
                \A g \in 1 .. Len(LatView(n).trial_set) :
                    \A i \in 1 .. Len(Members(LatView(n), g)) :
                        \A s \in 0 .. call.args.num_shuffles :
                            LET V == LatView(n)
                                e == Members(V, g)[i]
                                stored == IF s = 0 THEN V.out.latency[c][e]
                                          ELSE V.out.latency_shuffled[c][e][s]
                                reference == IF s = 0 THEN RInt(0)
                                             ELSE V.refs[c][g][s]
                            IN  stored =
                                    IF RGt(BaselineRate(V, c), RInt(2))
                                    THEN PoissonMs(V, c, g, reference)[i]
                                    ELSE MedianMs(V, c, g, reference)[i]

\* a cluster with a baseline rate of exactly 2 Hz on whose data the two
\* models give different latencies
C4_Witness ==
    /\ LatenciesReturned
    /\ \E n \in 1 .. Len(Val(psths)) :
        \E c \in 1 .. Len(LatView(n).psth) :
            \E g \in 1 .. Len(LatView(n).trial_set) :
                /\ BaselineRate(LatView(n), c) = RInt(2)
                /\ PoissonMs(LatView(n), c, g, RInt(0))
                        # MedianMs(LatView(n), c, g, RInt(0))

BinSpikeCandidates == {<<21, 1>>, <<23, 2>>, <<402, 1>>, <<450, 2>>}
BinRecordings ==
    {[Recording("rec1", S) EXCEPT !.sampling_rate = sr] :
        S \in {X \in SUBSET BinSpikeCandidates : Cardinality(X) <= MaxSpikes},
        sr \in SamplingRates}
BinStimuli ==
    {Stimulus("rec1", Some(<< <<"DIG1", Channel(evts, <<1, 2>>, "a")>> >>), Absent) :
        evts \in {<<20, 400>>, <<20, 21>>}}
BinWindows ==
    {Single(RInt(0), Rat(1, 128)),
     Nested(<< <<RInt(0), Rat(1, 128)>>, <<RInt(0), Rat(1, 128)>> >>)}
\* the bin sizes, in units of half a sampling interval
BinHalves == {1, 2, 4}

NextBin ==
    \/ /\ ~IsSet(spike)
       /\ \E sp \in BinRecordings : SetSpikeData(sp)
    \/ /\ events = <<>>
       /\ \E st \in BinStimuli : SetStimulusData(st)
    \/ /\ IsSet(spike)
       /\ \E k \in BinHalves, w \in BinWindows :
            GetRawPsth(w, Rat(500 * k, Val(spike).sampling_rate))

SpecBin == Init /\ [][NextBin]_vars

\* the sampling interval of the loaded recording, in ms
SamplingInterval == Rat(1000, Val(spike).sampling_rate)

\* the session can build a PSTH with this window argument
PsthInputsReady(window) ==
    /\ events # <<>>
    /\ verify_window_format(window, Len(events)).ok

\* C11: get_raw_psth with a bin size below the sampling interval of the
\* recording ends in an error and leaves psths and NUM_STIM as they were;
\* with a bin size equal to the sampling interval (and events loaded, and
\* a window argument that fits them) it is accepted and stores a PSTH.
C11_BinSizeAtLeastSamplingInterval ==
    [][(call'.op = "get_raw_psth" /\ IsSet(spike)) =>
        /\ RLt(call'.args.time_bin_ms, SamplingInterval)
            => (call'.result = Error /\ UNCHANGED <<psths, NUM_STIM>>)
        /\ (call'.args.time_bin_ms = SamplingInterval
                /\ PsthInputsReady(call'.args.window))
            => (call'.result = Ok /\ IsSet(psths'))]_vars

\* the first half of C11 alone: a bin size below the sampling interval is
\* refused and nothing is stored
BinSizeBelowIntervalRefused ==
    [][(call'.op = "get_raw_psth" /\ IsSet(spike)
            /\ RLt(call'.args.time_bin_ms, SamplingInterval))
        => (call'.result = Error /\ UNCHANGED <<psths, NUM_STIM>>)]_vars

(***************************************************************************)
(* Sessions at 1000 Hz that build a PSTH of three bins of 10 ms and ask    *)
(* for the raw firing rate at that bin size: the bin centres 0.005 and     *)
(* 0.015 and the bin size 0.01 are not binary64 values.                    *)
(***************************************************************************)
NativeSpikeCandidates == {<<22, 1>>, <<35, 1>>, <<45, 2>>, <<412, 2>>}
NativeRecordings ==
    {Recording("rec1", S) :
        S \in {X \in SUBSET NativeSpikeCandidates : Cardinality(X) <= MaxSpikes}}
NativeWindow == Single(RInt(0), Rat(1, 32))
NativeTimeBin == RInt(10)
NativeResponses == {Single(RInt(0), Rat(1, 32)), Single(RInt(0), Rat(1, 64))}

NextNative ==
    \/ /\ ~IsSet(psths)
       /\ \E sp \in NativeRecordings : SetSpikeData(sp)
    \/ /\ ~IsSet(psths)
       /\ \E st \in BinStimuli : SetStimulusData(st)
    \/ GetRawPsth(NativeWindow, NativeTimeBin)
    \/ \E fr_window \in NativeResponses :
            GetRawFiringRate(Scalar(NativeTimeBin), fr_window, "raw", Absent,
                             Absent)

SpecNative == Init /\ [][NextNative]_vars

(***************************************************************************)
(* Claims about get_raw_firing_rate.  They are stated on the state right   *)
(* after a call that returned, from the stored PSTH and the arguments of   *)
(* the call.                                                               *)
(***************************************************************************)
FiringRateReturned == call.op = "get_raw_firing_rate" /\ call.result = Ok

\* what the call worked on for the n-th stimulus: the stored PSTH entry, its
\* bin size, and the bin size and window asked for
FrView(n) ==
    [key |-> Val(psths)[n][1],
     psth |-> Val(psths)[n][2].psth,
     bins |-> Val(psths)[n][2].bins,
     size |-> RSub(Val(psths)[n][2].bins[2], Val(psths)[n][2].bins[1]),
     asked |-> TimeBinSizes(call.args.time_bin_ms, Val(NUM_STIM)).v[n],
     window |-> verify_window_format(call.args.fr_window, Val(NUM_STIM)).v[n]]

\* the bins of the PSTH whose centre lies in the window asked for, in order
WindowBins(V) ==
    SortedSeq({k \in 1 .. Len(V.bins) :
                RGe(V.bins[k], V.window[1]) /\ RLe(V.bins[k], V.window[2])})

\* the stored per-trial rates and bin centres are those of the PSTH's own
\* bins in the window: count / bin size, cell by cell
RawRatesOfPsth(V) ==
    /\ DGet(Val(fr.raw_firing_rate), V.key) =
            [c \in 1 .. Len(V.psth) |->
                [e \in 1 .. Len(V.psth[c]) |->
                    [i \in 1 .. Len(WindowBins(V)) |->
                        FrCell(Rat(V.psth[c][e][WindowBins(V)[i]] * V.size[2],
                                   V.size[1]),
                               <<>>)]]]
    /\ DGet(Val(fr.fr_bins), V.key) =
            [i \in 1 .. Len(WindowBins(V)) |-> V.bins[WindowBins(V)[i]]]

\* C12: after get_raw_firing_rate in mode 'raw' with the bin size of the
\* stored PSTH, the PSTH is not re-binned: for every stimulus the stored
\* per-trial rates have the (cluster, trial, bin) shape of the PSTH
\* restricted to the window and each is the PSTH count of its cell divided
\* by the bin size.
C12_RawRateAtNativeResolution ==
    (FiringRateReturned /\ call.args.mode = "raw") =>
        \A n \in 1 .. Len(Val(psths)) :
            FrView(n).asked = FrView(n).size => RawRatesOfPsth(FrView(n))

(***************************************************************************)
(* Sessions that build the PSTH at 250 ms bins and derive firing rates,    *)
(* z scores and latencies from it at 250 ms and, re-binned, at 500 ms.     *)
(***************************************************************************)
FrameTimeBins == {RInt(250), RInt(500)}
\* per-stimulus lists of one value fit the sessions of one stimulus only
FrameTimeBinArgs ==
    {Scalar(time_bin_ms) : time_bin_ms \in FrameTimeBins}
        \cup {List(<<RInt(250)>>)}
FrameFrCalls ==
    {<<"raw", Absent, Absent>>,
     <<"smooth", Absent, Some(Scalar(RInt(500)))>>,
     <<"smooth", Absent, Some(List(<<RInt(500)>>))>>,
     <<"bsl-subtracted", Some(SeqBaseline), Absent>>}

NextFrame ==
    \/ /\ ~IsSet(psths)
       /\ \E sp \in SeqRecordings : SetSpikeData(sp)
    \/ /\ ~IsSet(psths)
       /\ \E st \in SeqStimuli : SetStimulusData(st)
    \/ GetRawPsth(SeqWindow, SeqTimeBin)
    \/ \E a \in FrameFrCalls, time_bin_ms \in FrameTimeBinArgs :
            GetRawFiringRate(time_bin_ms, SeqResponse, a[1], a[2], a[3])
    \/ \E time_bin_ms \in FrameTimeBinArgs :
            ZScoreData(time_bin_ms, SeqBaseline, SeqResponse)
    \/ \E time_bin_ms \in FrameTimeBins :
            Latencies(SeqBaseline, time_bin_ms, 1, {Rat(1, 2)})

SpecFrame == Init /\ [][NextFrame]_vars

\* the bin size a derivation call asked for, in ms
AskedTimeBin ==
    IF call.op = "latencies" THEN call.args.time_bin_ms
    ELSE call.args.time_bin_ms.v[1]

\* C13: no call of get_raw_firing_rate, z_score_data or latencies, in any
\* mode and with or without re-binning, changes a stored PSTH tensor or bin
\* grid: psths only changes in a get_raw_psth call.
C13_DerivationsLeavePsthAlone ==
    [][psths' # psths => call'.op = "get_raw_psth"]_vars

\* each derivation has returned from a call that re-binned the stored PSTH
\* of 250 ms bins to 500 ms
C13_Witness ==
    /\ call.op \in DerivationStages
    /\ call.result = Ok
    /\ AskedTimeBin = RInt(500)
    /\ \A n \in 1 .. Len(Val(psths)) :
        RSub(Val(psths)[n][2].bins[2], Val(psths)[n][2].bins[1]) = Rat(1, 4)
    /\ IsSet(fr.raw_firing_rate) /\ IsSet(zs.raw_zscores) /\ IsSet(lat.latency)

\* a per-stimulus list among the arguments of the call c has another length
\* than the number of stimuli
MismatchedList(c) ==
    \/ /\ c.args.time_bin_ms.kind = "list"
       /\ Len(c.args.time_bin_ms.v) # Val(NUM_STIM)
    \/ /\ c.op = "get_raw_firing_rate"
       /\ c.args.mode = "smooth"
       /\ IsSet(c.args.sm_time_ms)
       /\ Val(c.args.sm_time_ms).kind = "list"
       /\ Len(Val(c.args.sm_time_ms).v) # Val(NUM_STIM)

\* the per-trial results the derivation c stored, by stimulus
StoredPerTrial(c, rates, scores) ==
    IF c.op = "get_raw_firing_rate" THEN rates.raw_firing_rate
    ELSE scores.raw_zscores

\* C16: a get_raw_firing_rate or z_score_data call with a time_bin_ms list,
\* or in mode 'smooth' with an sm_time_ms list, whose length is not the
\* number of stimuli ends in an error and leaves every derived result as it
\* was; a call with a scalar bin size that returns has stored a result for
\* every stimulus.
C16_ListLengthChecked ==
    [][(call'.op \in {"get_raw_firing_rate", "z_score_data"} /\ IsSet(psths))
        => /\ MismatchedList(call')
                => (call'.result = Error /\ UNCHANGED <<fr, zs, lat>>)
           /\ (call'.result = Ok /\ call'.args.time_bin_ms.kind = "scalar")
                => DKeys(Val(StoredPerTrial(call', fr', zs')))
                        = DKeys(Val(psths))]_vars

\* a smooth call with a list of one smoothing time has been refused in a
\* session of two stimuli that holds earlier firing rates and z scores
C16_Witness ==
    /\ call.op = "get_raw_firing_rate"
    /\ call.result = Error
    /\ IsSet(psths)
    /\ Val(NUM_STIM) = 2
    /\ call.args.time_bin_ms.kind = "scalar"
    /\ MismatchedList(call)
    /\ IsSet(fr.raw_firing_rate)
    /\ Len(Val(fr.raw_firing_rate)) = 2
    /\ IsSet(zs.raw_zscores)

(***************************************************************************)
(* Claims about z_score_data.  They are stated on the state right after a  *)
(* call, from the stored PSTH and the arguments of the call.               *)
(***************************************************************************)
\* the arguments of the z_score_data call fit the stored stimuli
ZArgumentsFit ==
    /\ TimeBinSizes(call.args.time_bin_ms, Val(NUM_STIM)).ok
    /\ verify_window_format(call.args.bsl_window, Val(NUM_STIM)).ok
    /\ verify_window_format(call.args.z_window, Val(NUM_STIM)).ok

\* what the call worked on for the n-th stimulus
ZView(n) ==
    LET key == Val(psths)[n][1]
        entry == Rebinned(Val(psths)[n][2],
                          TimeBinSizes(call.args.time_bin_ms, Val(NUM_STIM)).v[n])
        trials == DGet(events, DGet(_get_key_for_stim, key)).trial_groups
    IN  [psth |-> entry.psth,
         bins |-> entry.bins,
         trials |-> trials,
         trial_set |-> Unique(trials),
         bsl |-> verify_window_format(call.args.bsl_window, Val(NUM_STIM)).v[n],
         raw |-> DGet(Val(zs.raw_zscores), key),
         mean |-> DGet(Val(zs.z_scores), key)]

\* the standard deviation of the summed baseline counts of cluster c over
\* the trials of the g-th trial group is 0
ZeroBaselineStd(V, c, g) ==
    BaselineRateVariance(
        Pick(SelectBins(V.psth, BinMask(V.bins, V.bsl))[c],
             GroupMask(V.trials, V.trial_set[g])),
        V.bsl)[1] = 0

SmoothSpikeCandidates == {<<1001, 1>>, <<1002, 1>>, <<2501, 2>>}
SmoothRecordings ==
    {[Recording("rec1", S) EXCEPT !.sampling_rate = 1024] :
        S \in {X \in SUBSET SmoothSpikeCandidates : Cardinality(X) <= MaxSpikes}}
SmoothWindow == Single(RInt(0), Rat(1, 256))
SmoothTimeBins == {Rat(125, 128), Rat(125, 64)}
\* sm_time_ms: 1, 2, 3 and 2.5
SmoothTimes == {RInt(1), RInt(2), RInt(3), Rat(5, 2)}

NextSmooth ==
    \/ /\ ~IsSet(psths)
       /\ \E sp \in SmoothRecordings : SetSpikeData(sp)
    \/ /\ ~IsSet(psths)
       /\ \E st \in SeqStimuli : SetStimulusData(st)
    \/ GetRawPsth(SmoothWindow, Rat(125, 128))
    \/ \E time_bin_ms \in SmoothTimeBins, sm_time_ms \in SmoothTimes :
            GetRawFiringRate(Scalar(time_bin_ms), SmoothWindow, "smooth",
                             Absent, Some(Scalar(sm_time_ms)))

SpecSmooth == Init /\ [][NextSmooth]_vars

\* the per-trial rates the last call stored for the n-th stimulus
SmoothedRates(n) == DGet(Val(fr.raw_firing_rate), Val(psths)[n][1])

\* sm_std is an odd whole number
IsOddNumber(sm_std) == sm_std[2] = 1 /\ sm_std[1] % 2 = 1

\* C19: after get_raw_firing_rate in mode 'smooth', every standard
\* deviation handed to the smoother is an odd whole number of bins.
C19_SmoothingStdIsOdd ==
    (FiringRateReturned /\ call.args.mode = "smooth") =>
        \A n \in 1 .. Len(Val(psths)) :
            \A c \in 1 .. Len(SmoothedRates(n)) :
                \A e \in 1 .. Len(SmoothedRates(n)[c]) :
                    \A k \in 1 .. Len(SmoothedRates(n)[c][e]) :
                        IsOddNumber(SmoothedRates(n)[c][e][k].sm[2])

(***************************************************************************)
(* Claims about the cells latencies writes, on the assignments of the      *)
(* last call.                                                              *)
(***************************************************************************)
\* the assignments of the call to the n-th stimulus' arrays that wrote the
\* cell of cluster c and event e, shuffle s (0: the "latency" array)
WritesTo(n, c, e, s) ==
    {w \in Val(lat.writes)[n][2] :
        w.cluster = c /\ w.shuffle = s /\ e \in w.cells}

SameGroup(V, e) == {x \in 1 .. Len(V.trials) : V.trials[x] = V.trials[e]}

MaxFactorial == 23
PoissonMus == {Rat(1, 2), RInt(1), RInt(3)}

InitPoisson ==
    /\ InitSession
    /\ fn_args \in [k : 0 .. MaxFactorial, mu : PoissonMus]
    /\ fn_out = NoFnCall

CallFactorial ==
    /\ fn_out' = [fn |-> "factorial", value |-> factorial(fn_args.k)]
    /\ UNCHANGED <<fn_args, multispike, call>>
    /\ UNCHANGED sessionVars

CallPoissonPdf ==
    /\ fn_out' = [fn |-> "poisson_pdf",
                  value |-> poisson_pdf(fn_args.k, fn_args.mu)]
    /\ UNCHANGED <<fn_args, multispike, call>>
    /\ UNCHANGED sessionVars

CallPoissonCdf ==
    /\ fn_out' = [fn |-> "poisson_cdf",
                  value |-> poisson_cdf(fn_args.k, fn_args.mu)]
    /\ UNCHANGED <<fn_args, multispike, call>>
    /\ UNCHANGED sessionVars

NextPoisson == CallFactorial \/ CallPoissonPdf \/ CallPoissonCdf

SpecPoisson == InitPoisson /\ [][NextPoisson]_vars

\* k! as the product 1 * 2 * ... * k
RECURSIVE ExactFactorial(_)
ExactFactorial(k) ==
    IF k = 0 THEN <<1>>
    ELSE CHOOSE p \in {BigTimes(f, k) : f \in {ExactFactorial(k - 1)}} : TRUE

\* poisson_pdf(i, mu) + ... + poisson_pdf(k, mu)
RECURSIVE PdfSum(_, _, _)
PdfSum(i, k, mu) ==
    IF i > k THEN 0 ELSE poisson_pdf(i, mu) + PdfSum(i + 1, k, mu)

\* C15: the lookup table has 21 entries, entry 0 is 1 and entry i is i
\* times entry i - 1; factorial(k) is the table's entry k, the exact k!,
\* for 0 <= k <= 20 and Gamma(k + 1) for k > 20; poisson_cdf(k, mu) is the
\* sum of poisson_pdf(i, mu) for i = 0..k, and poisson_cdf(0, mu) is
\* poisson_pdf(0, mu).
C15_FactorialAndCdf ==
    /\ Len(LOOKUP_TABLE) = 21
    /\ LOOKUP_TABLE[1] = <<1>>
    /\ \A i \in 1 .. 20 : LOOKUP_TABLE[i + 1] = BigTimes(LOOKUP_TABLE[i], i)
    /\ fn_out.fn = "factorial" =>
        IF fn_args.k <= 20
        THEN /\ fn_out.value = LOOKUP_TABLE[fn_args.k + 1]
             /\ fn_out.value = ExactFactorial(fn_args.k)
        ELSE fn_out.value = gamma(fn_args.k + 1)
    /\ fn_out.fn = "poisson_cdf" =>
        /\ fn_out.value = PdfSum(0, fn_args.k, fn_args.mu)
        /\ fn_args.k = 0 => fn_out.value = poisson_pdf(0, fn_args.mu)

\* factorial(21), the first value that comes from Gamma: 21! =
\* 51090942171709440000
C15_Witness ==
    /\ fn_out.fn = "factorial"
    /\ fn_args.k = 21
    /\ fn_out.value = <<5109, 942, 1717, 944, 0>>

(***************************************************************************)
(* Sessions that z-score their PSTHs and then look for responsive neurons  *)
(* with response profiles given as an argument, in z_parameters.json, or   *)
(* both.                                                                   *)
(***************************************************************************)
Profile(time, score, n_bins) ==
    [time |-> time, score |-> score, n_bins |-> n_bins]

\* the window [3/8, 3/4] starts on the centre of the second response bin
RespExcitatory ==
    <<"excitatory", Profile(<<RInt(0), Rat(1, 2)>>, RInt(1), 0)>>
RespInhibitory ==
    <<"inhibitory", Profile(<<Rat(3, 8), Rat(3, 4)>>, Rat(-1, 2), 1)>>
RespOnsetOffset ==
    <<"Inhibited",
      Profile(<<RInt(0), Rat(1, 4), Rat(1, 2), Rat(3, 4)>>, Rat(-1, 2), 1)>>
RespThreeEnds ==
    <<"onset", Profile(<<RInt(0), Rat(1, 4), Rat(1, 2)>>, RInt(1), 0)>>

RespParameters ==
    {<< <<"all", <<RespExcitatory, RespInhibitory, RespOnsetOffset>> >> >>,
     << <<"all", <<RespInhibitory, RespThreeEnds, RespOnsetOffset>> >> >>,
     << <<"a", <<RespInhibitory>> >>, <<"b", <<RespOnsetOffset>> >> >>,
     << <<"a", <<RespThreeEnds>> >> >>}
RespFiles ==
    {Absent, Some(<< <<"all", <<RespOnsetOffset, RespInhibitory>> >> >>)}

NextResp ==
    \/ /\ ~IsSet(psths)
       /\ \E sp \in SeqRecordings : SetSpikeData(sp)
    \/ /\ ~IsSet(psths)
       /\ \E st \in SeqStimuli : SetStimulusData(st)
    \/ GetRawPsth(SeqWindow, SeqTimeBin)
    \/ ZScoreData(Scalar(SeqTimeBin), SeqBaseline, SeqResponse)
    \/ \E z_parameters \in {Absent} \cup {Some(P) : P \in RespParameters} :
        \E parameter_file \in RespFiles :
            GetResponsiveNeurons(z_parameters, parameter_file)

SpecResp == Init /\ [][NextResp]_vars

\* the parameters the last get_responsive_neurons call worked with
ParametersUsed ==
    IF IsSet(call.args.parameter_file) THEN Val(call.args.parameter_file)
    ELSE Val(call.args.z_parameters)

\* the profiles the call applies to the stimulus of the n-th z-score entry
ProfilesFor(n) ==
    IF DHas(ParametersUsed, "all") THEN DGet(ParametersUsed, "all")
    ELSE IF DHas(ParametersUsed, DKeys(Val(zs.z_scores))[n])
    THEN DGet(ParametersUsed, DKeys(Val(zs.z_scores))[n])
    ELSE <<>>

\* bin centre b lies strictly inside (w[lo], w[lo + 1])
StrictlyInside(b, w, lo) == RLt(w[lo], b) /\ RLt(b, w[lo + 1])

\* the bins of the n-th stimulus that count for profile entry p of cluster
\* c and group g: inside the window and beyond the score
CountedBins(n, p, c, g) ==
    {k \in 1 .. Len(Val(zs.z_bins)[n][2]) :
        /\ \/ StrictlyInside(Val(zs.z_bins)[n][2][k], p[2].time, 1)
           \/ /\ Len(p[2].time) = 4
              /\ StrictlyInside(Val(zs.z_bins)[n][2][k], p[2].time, 3)
        /\ BeyondScore(Val(zs.z_scores)[n][2][c][g][k], p[1], p[2].score)}

\* C17: get_responsive_neurons ends in an error when a response profile it
\* applies has a window of neither 2 nor 4 endpoints; when it succeeds,
\* every flag it stored counts exactly the bins strictly inside (start, end)
\* of a 2-endpoint window, and the bins strictly inside either interval of
\* a 4-endpoint window.
C17_WindowShapes ==
    (/\ call.op = "get_responsive_neurons"
     /\ IsSet(call.args.parameter_file) \/ IsSet(call.args.z_parameters)
     /\ IsSet(zs.z_scores))
    => /\ (\E n \in 1 .. Len(Val(zs.z_scores)) :
            \E i \in 1 .. Len(ProfilesFor(n)) :
                Len(ProfilesFor(n)[i][2].time) \notin {2, 4})
          => call.result = Error
       /\ call.result = Ok
          => \A n \in 1 .. Len(Val(zs.z_scores)) :
              \A i \in 1 .. Len(ProfilesFor(n)) :
               \A c \in 1 .. Len(Val(zs.z_scores)[n][2]) :
                \A g \in 1 .. Len(Val(zs.z_scores)[n][2][c]) :
                    DGet(DGet(Val(responsive_neurons),
                              DKeys(Val(zs.z_scores))[n]),
                         ProfilesFor(n)[i][1])[c][g]
                    = (Cardinality(CountedBins(n, ProfilesFor(n)[i], c, g))
                       > ProfilesFor(n)[i][2].n_bins)

\* a successful call where cluster 1 is below the score in the two bins at
\* 3/8 and 5/8 of stimulus "b": the window that starts at 3/8 counts one
\* bin and leaves the cluster unresponsive, the two intervals (0, 1/4) and
\* (1/2, 3/4) count two bins and make it responsive
C17_Witness ==
    /\ call.op = "get_responsive_neurons"
    /\ call.result = Ok
    /\ IsSet(responsive_neurons)
    /\ DHas(Val(responsive_neurons), "b")
    /\ DHas(DGet(Val(responsive_neurons), "b"), "inhibitory")
    /\ DHas(DGet(Val(responsive_neurons), "b"), "Inhibited")
    /\ ~DGet(DGet(Val(responsive_neurons), "b"), "inhibitory")[1][1]
    /\ DGet(DGet(Val(responsive_neurons), "b"), "Inhibited")[1][1]
    /\ \A k \in {2, 3} :
        BeyondScore(DGet(Val(zs.z_scores), "b")[1][1][k], "inhibitory",
                    Rat(-1, 2))

(***************************************************************************)
(* Sessions that are given spike data and stimulus data of two root        *)
(* paths, any number of times and in any order.                            *)
(***************************************************************************)
RootPaths == {"rec1", "rec2"}
PathRecordings == {Recording(p, S) : p \in RootPaths, S \in SeqSpikeSets}
\* the stimulus data without any events makes set_stimulus_data raise
\* after the path check
PathStimuli ==
    {Stimulus(p, d, Absent) : p \in RootPaths, d \in {Absent, Some(SeqDigital)}}

NextPath ==
    \/ \E sp \in PathRecordings : SetSpikeData(sp)
    \/ \E st \in PathStimuli : SetStimulusData(st)
    \/ GetRawPsth(SeqWindow, SeqTimeBin)

SpecPath == Init /\ [][NextPath]_vars

SetDataCalls == {"set_spike_data", "set_stimulus_data"}

\* C20: once set, the session's _file_path never changes; the first
\* set_spike_data or set_stimulus_data call sets it to the root path of its
\* data, and a later call with data of another root path ends in an error
\* and leaves every attribute of the session as it was.
C20_RootPathFixed ==
    [][/\ file_path # None => file_path' = file_path
       /\ (call'.op \in SetDataCalls /\ file_path = None)
            => file_path' = call'.args.file_path
       /\ (/\ call'.op \in SetDataCalls
           /\ file_path # None
           /\ call'.args.file_path # file_path)
            => call'.result = Error /\ UNCHANGED sessionVars]_vars

\* a session with spikes and events of "rec1" that has just refused data
\* of "rec2"
C20_Witness ==
    /\ call.op \in SetDataCalls
    /\ call.result = Error
    /\ call.args.file_path = "rec2"
    /\ file_path = "rec1"
    /\ IsSet(spike)
    /\ events # <<>>

(***************************************************************************)
(* Sessions whose stimulus data is set again, before and after the PSTHs   *)
(* are built: one channel, two channels, or one channel with a third       *)
(* event.                                                                  *)
(***************************************************************************)
ReloadThreeEvents ==
    << <<"DIG1", Channel(<<1000, 1750, 2500>>, <<1, 2, 1>>, "a")>> >>
ReloadStimuli ==
    SeqStimuli \cup {Stimulus("rec1", Some(ReloadThreeEvents), Absent)}

NextReload ==
    \/ /\ ~IsSet(spike)
       /\ \E sp \in SeqRecordings : SetSpikeData(sp)
    \/ \E st \in ReloadStimuli : SetStimulusData(st)
    \/ \E window \in {SeqWindow, SeqResponse}, time_bin_ms \in FrameTimeBins :
            GetRawPsth(window, time_bin_ms)

SpecReload == Init /\ [][NextReload]_vars

\* the i-th PSTH entry is that of the i-th event channel: its key is the
\* channel's stimulus name, the name resolves to a channel, and that
\* channel has one event per trial row of the PSTH
EntryOfChannel(i) ==
    /\ i <= Len(events)
    /\ Val(psths)[i][1] = events[i][2].stim
    /\ DHas(_get_key_for_stim, Val(psths)[i][1])
    /\ \A c \in 1 .. Len(Val(psths)[i][2].psth) :
        Len(Val(psths)[i][2].psth[c])
            = Len(DGet(events,
                       DGet(_get_key_for_stim, Val(psths)[i][1])).events)

\* C21: whenever a PSTH is stored it has exactly NUM_STIM entries, one per
\* channel of the current events and in their order, and every key
\* resolves through _get_key_for_stim to a channel with as many events as
\* the PSTH has trials.
C21_PsthMatchesEvents ==
    IsSet(psths) =>
        /\ IsSet(NUM_STIM)
        /\ Len(Val(psths)) = Val(NUM_STIM)
        /\ Val(NUM_STIM) = Len(events)
        /\ \A i \in 1 .. Len(Val(psths)) : EntryOfChannel(i)

====
